---- MODULE Spec2Model ----
(***************************************************************************)
(* Model of the monthly payment pipeline of milk-production-api:           *)
(* PaymentService / PaymentRepository / PaymentController,                 *)
(* MilkProductionService / MilkProductionRepository and the farm writes    *)
(* they depend on.                                                         *)
(*                                                                         *)
(* Numbers.  A JavaScript number is modelled as a record                   *)
(* [kind, v]: kind "num" carries a fixed-point integer v, kind "nan" is    *)
(* NaN and kind "inf" is +/-Infinity (sign in v).  Money is held in        *)
(* thousandths of a BRL (1.80 is 1800), volumes in litres and distances    *)
(* in kilometres.                                                          *)
(*                                                                         *)
(* Requests.  A payment request that awaits the database or the rate       *)
(* source is served in a slot, one action for each stretch between two     *)
(* awaits, so that other requests interleave with it; its answer stays in  *)
(* the slot until it is sent.  The writes of a single repository call are  *)
(* one action each.  Optional values are sequences of length 0 or 1.       *)
(*                                                                         *)
(* Behaviours.  SpecPrice runs the price calculator on its own over a      *)
(* grid of arguments; Spec serves one payment request at a time among the  *)
(* writes of snapshots and productions; SpecFarms serves two month reads   *)
(* at a time among the writes of farms.                                    *)
(***************************************************************************)
EXTENDS Integers, Sequences, FiniteSets, TLC

\* ------------------------------------------------------------------ bounds
MaxDocs == 4         \* documents the database inserts in a behaviour
MaxFarms == 1        \* farms among them
MaxProductions == 2  \* daily production records among them

\* --------------------------------------------------------- JavaScript numbers
Num(n) == [kind |-> "num", v |-> n]
NaN == [kind |-> "nan", v |-> 0]
Inf(sign) == [kind |-> "inf", v |-> sign]

Sign(n) == IF n < 0 THEN -1 ELSE IF n > 0 THEN 1 ELSE 0
Abs(n) == IF n < 0 THEN -n ELSE n

\* a + b of JavaScript
JsAdd(a, b) ==
  IF a.kind = "nan" \/ b.kind = "nan" THEN NaN
  ELSE IF a.kind = "inf" /\ b.kind = "inf"
       THEN (IF a.v = b.v THEN a ELSE NaN)
  ELSE IF a.kind = "inf" THEN a
  ELSE IF b.kind = "inf" THEN b
  ELSE Num(a.v + b.v)

\* -a of JavaScript
JsNeg(a) ==
  IF a.kind = "nan" THEN NaN
  ELSE IF a.kind = "inf" THEN Inf(-a.v)
  ELSE Num(-a.v)

\* a - b of JavaScript
JsSub(a, b) == JsAdd(a, JsNeg(b))

\* a / b of JavaScript on whole quantities: 0/0 is NaN, x/0 is +/-Infinity
JsDiv(a, b) ==
  IF a.kind = "nan" \/ b.kind = "nan" THEN NaN
  ELSE IF a.kind = "inf" /\ b.kind = "inf" THEN NaN
  ELSE IF a.kind = "inf"
       THEN Inf(IF b.v < 0 THEN -a.v ELSE a.v)
  ELSE IF b.kind = "inf" THEN Num(0)
  ELSE IF b.v = 0
       THEN (IF a.v = 0 THEN NaN ELSE Inf(Sign(a.v)))
  ELSE Num(Sign(a.v) * Sign(b.v) * (Abs(a.v) \div Abs(b.v)))

\* a * b of JavaScript
JsMul(a, b) ==
  IF a.kind = "nan" \/ b.kind = "nan" THEN NaN
  ELSE IF a.kind = "inf" \/ b.kind = "inf"
       THEN (IF (a.kind = "num" /\ a.v = 0) \/ (b.kind = "num" /\ b.v = 0)
             THEN NaN
             ELSE Inf(Sign(a.v) * Sign(b.v)))
  ELSE Num(a.v * b.v)

\* ------------------------------------------------------- request body values
\* A JSON body carries a whole number as a number or as a numeral string;
\* check(field).isInt() accepts both and converts neither, so the service and
\* the database get the value as it was sent.  The numeral string of n is
\* written StringTag + n: no number of the model reaches StringTag, a string
\* equals no number, and the database orders every number before every string.
StringTag == 1000000

JsonString(n) == StringTag + n

isString(x) == x >= StringTag

\* ToNumber of JavaScript, applied by arithmetic, by comparison with a number
\* and by Date.UTC
ToNumber(x) == IF isString(x) THEN x - StringTag ELSE x

\* ------------------------------------------------------- the price calculator
FirstSemesterBasePrice == 1800      \* 1.8
SecondSemesterBasePrice == 1950     \* 1.95
VolumeBonus == 10                   \* 0.01
BonusVolumeThreshold == 10000
NearCostPerKm == 50                 \* 0.05
FarCostPerKm == 60                  \* 0.06
NearDistanceLimit == 50

isFirstSemester(month) == ToNumber(month) >= 1 /\ ToNumber(month) <= 6

basePrice(month) ==
  IF isFirstSemester(month) THEN FirstSemesterBasePrice
  ELSE SecondSemesterBasePrice

bonus(volume, month) ==
  IF ~isFirstSemester(month) /\ volume > BonusVolumeThreshold
  THEN VolumeBonus ELSE 0

costPerKm(distance) ==
  IF distance <= NearDistanceLimit THEN NearCostPerKm ELSE FarCostPerKm

transportCost(distance) == costPerKm(distance) * distance

_calculatePricePerLiterMutFloor(distance, volume, month) ==
  LET price ==
        JsAdd(JsSub(Num(basePrice(month)), Num(transportCost(distance))),
              JsDiv(JsMul(Num(bonus(volume, month)), Num(volume)), Num(volume)))
  IN IF price.kind = "num" /\ price.v < 0 THEN Num(0) ELSE price

\* PaymentService._calculatePricePerLiter(farm, volume, month), farm given by
\* its distance_to_factory_km
_calculatePricePerLiter(distance, volume, month) ==
  JsAdd(JsSub(Num(basePrice(month)), Num(transportCost(distance))),
        JsDiv(JsMul(Num(bonus(volume, month)), Num(volume)), Num(volume)))

\* ------------------------------------------------------------ calendar dates
\* An instant of UTC time: calendar day plus the millisecond of that day.
Instant(y, m, d, ms) == [year |-> y, month |-> m, day |-> d, ms |-> ms]

isLeapYear(y) == (y % 4 = 0 /\ y % 100 # 0) \/ y % 400 = 0

daysInMonth(y, m) ==
  IF m = 2 THEN (IF isLeapYear(y) THEN 29 ELSE 28)
  ELSE IF m \in {4, 6, 9, 11} THEN 30 ELSE 31

\* a <= b on instants ($gte / $lte of the date match)
InstantLE(a, b) ==
  \/ a.year < b.year
  \/ a.year = b.year /\ a.month < b.month
  \/ a.year = b.year /\ a.month = b.month /\ a.day < b.day
  \/ a.year = b.year /\ a.month = b.month /\ a.day = b.day /\ a.ms <= b.ms

\* new Date(Date.UTC(year, monthIndex, day, h, m, s)) for day 0 or day >= 1:
\* the month index is normalised into the year, and day 0 is the last day of
\* the month before.  secs is h*3600 + m*60 + s.
DateUTC(year, monthIndex, day, secs) ==
  LET y == year + (monthIndex \div 12)
      m == (monthIndex % 12) + 1
      py == IF m = 1 THEN y - 1 ELSE y
      pm == IF m = 1 THEN 12 ELSE m - 1
  IN IF day >= 1 THEN Instant(y, m, day, secs * 1000)
     ELSE Instant(py, pm, daysInMonth(py, pm), secs * 1000)

LastSecondOfDay == 86399      \* 23 h, 59 min, 59 s

startOfMonth(year, month) == DateUTC(ToNumber(year), ToNumber(month) - 1, 1, 0)

endOfMonth(year, month) ==
  DateUTC(ToNumber(year), ToNumber(month), 0, LastSecondOfDay)

\* --------------------------------------------------------------- formatting
\* A decimal amount rounded to two places, half away from zero, as
\* Intl.NumberFormat's currency style and Number.prototype.toFixed(2) print it.
RoundToCents(n) == Sign(n) * ((Abs(n) + 5) \div 10)

\* new Intl.NumberFormat(locale, {style: "currency", currency}).format(x)
FormatCurrency(locale, currency, x) ==
  [locale |-> locale, currency |-> currency, kind |-> x.kind,
   cents |-> IF x.kind = "num" THEN RoundToCents(x.v) ELSE x.v]

\* parseFloat(x).toFixed(2)
toFixed2(x) ==
  [kind |-> x.kind, cents |-> IF x.kind = "num" THEN RoundToCents(x.v) ELSE x.v]

\* ------------------------------------------------------------------- inputs
Slots == {"a", "b"}            \* requests that can be in flight together
MalformedIds == {-1}                \* identifiers createFromHexString rejects
UnknownObjectIds == {0}             \* well-formed identifiers of no document
Years == {2024}
Months == {2, 7}
Distances == {30, 80}
Volumes == {6000}
PatchVolumes == {7000}
Rates == {1, 2}                  \* BRL to USD rates the rate source answers
ProductionDates ==
  {Instant(2024, 2, 29, LastSecondOfDay * 1000),
   Instant(2024, 2, 29, LastSecondOfDay * 1000 + 500),
   Instant(2024, 7, 10, 0)}
PaymentPatches == {[month |-> 2, total_volume_liters |-> 0]}
ProductionPatches == {[volume_liters |-> v] : v \in PatchVolumes}
\* the farmers that farm_id and farmer_id of a body can name; none is
\* checked against the farmers collection
DefaultFarmerId == 1
FarmerIds == {DefaultFarmerId, 2}
\* what the validators of POST /api/payments, /api/farms and
\* /api/milk-productions let through besides the values above: isInt() sets
\* no range and takes numeral strings, isFloat() sets no minimum
BodyMonths == {7, JsonString(7), 13}
BodyDistances == {-5, 30}
RouteProductionDates ==
  {Instant(2024, 2, 29, LastSecondOfDay * 1000 + 500),
   Instant(2024, 7, 10, 0), Instant(2024, 7, 20, 0)}
BodyProductionDates == {Instant(2024, 7, 10, 0), Instant(2025, 1, 10, 0)}

\* new Date() when a document is inserted, and at any later write
CreationTime == "t0"
LaterTime == "t1"

VARIABLES
  farms,         \* the farms collection
  productions,   \* the milk_production collection
  payments,      \* the monthly payments collection
  nextOid,       \* per collection, the next ObjectId the database hands out
  calls,         \* the request each slot is serving, with its locals
  calc           \* a price calculation on its own: its inputs and its result

vars == <<farms, productions, payments, nextOid, calls, calc>>

\* ---------------------------------------------------------------- responses
NoResult == [status |-> 0, error |-> "", message |-> "", list |-> <<>>]
\* res.status(500).json({error}) of the controllers' catch blocks
ErrorResponse(msg) == [status |-> 500, error |-> msg, message |-> "", list |-> <<>>]
\* res.status(200).json({message}) for a result value of the read paths
MessageResponse(msg) == [status |-> 200, error |-> "", message |-> msg, list |-> <<>>]
\* res.status(401).json({error}) of the auth middleware
Unauthorized(msg) == [status |-> 401, error |-> msg, message |-> "", list |-> <<>>]
\* res.status(code).json(data)
DataResponse(code, data) == [status |-> code, error |-> "", message |-> "", list |-> data]

\* what the auth header of a request can carry after "Bearer ": nothing, a
\* token that jwt.verify rejects, a token signed with SECRET_KEY
NoToken == "absent"
Tokens == {NoToken, "forged", "signed"}

\* token is the one verifyToken has let pass, NoToken where the middleware is
\* not modelled or has not run; pending holds the collections whose delete a
\* Promise.all of the call still awaits; failures counts the storage queries
\* of the call that were rejected; body holds the fields a createPayment body
\* carries besides farm_id, year and month, if it carries any
IdleCall ==
  [op |-> "none", pc |-> "idle", token |-> NoToken, id |-> 0, year |-> 0,
   month |-> 0, farm |-> <<>>, items |-> <<>>, price |-> <<>>, conv |-> <<>>,
   doc |-> <<>>, body |-> <<>>, pending |-> {}, failures |-> 0,
   result |-> NoResult]

Free(c) == calls[c].pc = "idle"

\* the identifiers a request can carry for a document of the collection
ArgIds(collection) ==
  {d._id : d \in collection} \cup UnknownObjectIds \cup MalformedIds

\* the documents inserted so far
Inserted == (nextOid.farms - 1) + (nextOid.productions - 1) + (nextOid.payments - 1)

\* _formatObjectId: ObjectId.createFromHexString throws on a malformed string
validObjectId(id) == id \notin MalformedIds

InvalidIdError == "Invalid ID format"

\* $set: the patch's fields overwrite or extend the document's
Merge(doc, patch) ==
  [f \in (DOMAIN doc) \cup (DOMAIN patch) |->
     IF f \in DOMAIN patch THEN patch[f] ELSE doc[f]]

\* no price calculation on its own is under way
NoCalc == [st |-> "none", distance |-> 0, volume |-> 0, month |-> 0, price |-> NaN]

Init ==
  /\ farms = {}
  /\ productions = {}
  /\ payments = {}
  /\ nextOid = [farms |-> 1, productions |-> 1, payments |-> 1]
  /\ calls = [c \in Slots |-> IdleCall]
  /\ calc = NoCalc

\* ------------------------------------------------------------- repositories
\* FarmRepository.getFarmById: the farm as a sequence of at most one document
getFarmById(id) ==
  IF \E f \in farms : f._id = id
  THEN <<CHOOSE f \in farms : f._id = id>>
  ELSE <<>>

\* MilkProductionRepository.getMilkProductionsByYearAndMonth: the $match stage
getMilkProductionsByYearAndMonth(farmId, start, end) ==
  {p \in productions :
     p.farm_id = farmId /\ InstantLE(start, p.date) /\ InstantLE(p.date, end)}

RECURSIVE SumVolumes(_)
\* milkProductions.reduce((sum, prod) => sum + prod.volume_liters, 0)
SumVolumes(S) ==
  IF S = {} THEN 0
  ELSE LET p == CHOOSE q \in S : TRUE
       IN p.volume_liters + SumVolumes(S \ {p})

\* PaymentRepository.getPricePerLiterByFarmAndMonth: findOne answers any one
\* of the matching documents
MatchingPayments(farmId, year, month) ==
  {p \in payments : p.farm_id = farmId /\ p.year = year /\ p.month = month}

\* the sequences that hold every element of S once
RECURSIVE Orderings(_)
Orderings(S) ==
  IF S = {} THEN {<<>>}
  ELSE UNION {{<<x>> \o t : t \in Orderings(S \ {x})} : x \in S}

SortedByMonth(seq) ==
  \A i \in 1..(Len(seq) - 1) : seq[i].month <= seq[i + 1].month

findByFarmAndYearMutUnsorted(farmId, year) ==
  Orderings({p \in payments : p.farm_id = farmId /\ p.year = year})

\* PaymentRepository.getPricePerLiterByFarmAndYear: find, sort({month: 1}),
\* toArray; documents of equal month come in any order
findByFarmAndYear(farmId, year) ==
  {s \in Orderings({p \in payments : p.farm_id = farmId /\ p.year = year}) :
     SortedByMonth(s)}

\* ------------------------------------------------------- call bookkeeping
\* a request enters slot c with its arguments and first locals
Enter(c, fields) ==
  /\ calls' = [calls EXCEPT ![c] = Merge(calls[c], fields)]
  /\ UNCHANGED calc
\* the request in slot c goes on with new locals
Continue(c, fields) ==
  /\ calls' = [calls EXCEPT ![c] = Merge(calls[c], fields)]
  /\ UNCHANGED calc
\* the controller builds the answer to the request in slot c
Respond(c, fields, res) ==
  /\ calls' = [calls EXCEPT ![c] =
                 Merge(Merge(calls[c], fields), [pc |-> "done", result |-> res])]
  /\ UNCHANGED calc
\* res.status(...).json(...): the answer of slot c is sent and the slot is free
Finish(c) ==
  /\ calls[c].pc = "done"
  /\ calls' = [calls EXCEPT ![c] = IdleCall]
  /\ UNCHANGED <<farms, productions, payments, nextOid, calc>>

\* ------------------------------------------------- PaymentService.createPayment
FarmNotFound == "Farm not found"
NoProductionData == "No milk production data found for this period"

\* paymentDataFormatted: the snapshot createPayment computes from the farm and
\* the month's productions
paymentDataFormatted(farm, milkProductions, farm_id, year, month) ==
  LET totalVolumeLiters == SumVolumes(milkProductions)
      pricePerLiter ==
        _calculatePricePerLiter(farm.distance_to_factory_km, totalVolumeLiters, month)
  IN [farm_id |-> farm_id, year |-> year, month |-> month,
      price_per_liter |-> pricePerLiter,
      total_volume_liters |-> totalVolumeLiters,
      total_payment |-> JsMul(pricePerLiter, Num(totalVolumeLiters))]

\* insertOne({...paymentData, createdAt: new Date(), updatedAt: new Date()})
insertedPayment(doc, oid) ==
  Merge(doc, [_id |-> oid, createdAt |-> CreationTime, updatedAt |-> CreationTime])

spreadPaymentDataMutClientWins(others, computed) ==
  IF others = <<>> THEN computed ELSE Merge(computed, others[1])

\* {...paymentData, farm_id, price_per_liter, total_volume_liters,
\* total_payment}: the body's fields first, the computed ones over them
spreadPaymentData(others, computed) ==
  IF others = <<>> THEN computed ELSE Merge(others[1], computed)

\* createPayment up to the end of farmRepository.getFarmById, for a body
\* {farm_id, year, month, ...others}
PaymentService_createPayment_getFarm(c, farm_id, year, month, others) ==
  /\ Free(c)
  /\ LET args == [op |-> "createPayment", id |-> farm_id, year |-> year,
                  month |-> month, body |-> others]
         farm == getFarmById(farm_id)
     IN IF ~validObjectId(farm_id)
        THEN Respond(c, args, ErrorResponse(InvalidIdError))
        ELSE IF farm = <<>>
        THEN Respond(c, args, ErrorResponse(FarmNotFound))
        ELSE Enter(c, Merge(args, [pc |-> "cp_productions", farm |-> farm]))
  /\ UNCHANGED <<farms, productions, payments, nextOid>>

\* the same for a body of farm_id, year and month alone
CreatePayment_getFarm(c, farm_id, year, month) ==
  PaymentService_createPayment_getFarm(c, farm_id, year, month, <<>>)

CreatePayment_getProductionsMutInsertEmpty(c) ==
  /\ calls[c].pc = "cp_productions"
  /\ LET call == calls[c]
         milkProductions ==
           getMilkProductionsByYearAndMonth(
             call.id, startOfMonth(call.year, call.month),
             endOfMonth(call.year, call.month))
         doc == paymentDataFormatted(call.farm[1], milkProductions, call.id,
                                     call.year, call.month)
     IN IF milkProductions = {}
        THEN /\ Respond(c, <<>>, ErrorResponse(NoProductionData))
             /\ payments' = payments \cup {insertedPayment(doc, nextOid.payments)}
             /\ nextOid' = [nextOid EXCEPT !.payments = @ + 1]
        ELSE /\ Continue(c, [pc |-> "cp_insert", doc |-> <<doc>>])
             /\ UNCHANGED <<payments, nextOid>>
  /\ UNCHANGED <<farms, productions>>

\* createPayment from the productions query to the computed snapshot
CreatePayment_getProductions(c) ==
  /\ calls[c].pc = "cp_productions"
  /\ LET call == calls[c]
         milkProductions ==
           getMilkProductionsByYearAndMonth(
             call.id, startOfMonth(call.year, call.month),
             endOfMonth(call.year, call.month))
     IN IF milkProductions = {}
        THEN Respond(c, <<>>, ErrorResponse(NoProductionData))
        ELSE Continue(c, [pc |-> "cp_insert",
                          doc |-> <<spreadPaymentData(
                                      call.body,
                                      paymentDataFormatted(
                                        call.farm[1], milkProductions, call.id,
                                        call.year, call.month))>>])
  /\ UNCHANGED <<farms, productions, payments, nextOid>>

CreatePayment_insertMutUpsert(c) ==
  /\ calls[c].pc = "cp_insert"
  /\ Inserted < MaxDocs
  /\ LET doc == calls[c].doc[1]
     IN payments' =
          {p \in payments : ~(/\ p.farm_id = doc.farm_id /\ p.year = doc.year
                              /\ p.month = doc.month)}
          \cup {insertedPayment(doc, nextOid.payments)}
  /\ nextOid' = [nextOid EXCEPT !.payments = @ + 1]
  /\ Respond(c, <<>>, DataResponse(201, <<[insertedId |-> nextOid.payments]>>))
  /\ UNCHANGED <<farms, productions>>

\* PaymentRepository.createPayment: insertOne with fresh timestamps
CreatePayment_insert(c) ==
  /\ calls[c].pc = "cp_insert"
  /\ Inserted < MaxDocs
  /\ payments' = payments \cup {insertedPayment(calls[c].doc[1], nextOid.payments)}
  /\ nextOid' = [nextOid EXCEPT !.payments = @ + 1]
  /\ Respond(c, <<>>, DataResponse(201, <<[insertedId |-> nextOid.payments]>>))
  /\ UNCHANGED <<farms, productions>>

\* ------------------------------------------------------ currency conversion
\* what one currencyConverter.convert() call comes to: a rate, or a failure
ConversionOutcomes ==
  {[st |-> "ok", rate |-> r] : r \in Rates} \cup {[st |-> "fail", rate |-> 0]}
Pending == [st |-> "pending", rate |-> 0]
ConversionFailed == "Currency conversion failed"

\* the amount convert() resolves to at the given rate
convert(amount, rate) == JsMul(amount, Num(rate))

\* price_per_liter: {BRL: priceBR, USD: priceEN}
formattedPrices(pricePerLiter, rate) ==
  [BRL |-> FormatCurrency("pt-BR", "BRL", pricePerLiter),
   USD |-> FormatCurrency("en-US", "USD", convert(pricePerLiter, rate))]

\* ------------------------------ PaymentService.getPricePerLiterByFarmAndMonth
NoPaymentForPeriod == "No payment data found for this period"

monthResultMutFallback(payment, pricePerLiter, outcome) ==
  DataResponse(200,
    <<[price_per_liter |->
         formattedPrices(pricePerLiter, IF outcome.st = "ok" THEN outcome.rate ELSE 1),
       total_payment |-> toFixed2(payment.total_payment),
       total_volume_liters |-> toFixed2(Num(payment.total_volume_liters * 1000))]>>)

\* the try / catch around convert(): the result object, or the rethrown error
\* as the controller answers it
monthResult(payment, pricePerLiter, outcome) ==
  IF outcome.st = "ok"
  THEN DataResponse(200,
         <<[price_per_liter |-> formattedPrices(pricePerLiter, outcome.rate),
            total_payment |-> toFixed2(payment.total_payment),
            total_volume_liters |-> toFixed2(Num(payment.total_volume_liters * 1000))]>>)
  ELSE ErrorResponse(ConversionFailed)

GetMonth_getFarmMutThrow(c, farmId, year, month) ==
  /\ Free(c)
  /\ LET args == [op |-> "getMonth", id |-> farmId, year |-> year, month |-> month]
         farm == getFarmById(farmId)
     IN IF ~validObjectId(farmId)
        THEN Respond(c, args, ErrorResponse(InvalidIdError))
        ELSE IF farm = <<>>
        THEN Respond(c, args, ErrorResponse(FarmNotFound))
        ELSE Enter(c, Merge(args, [pc |-> "gm_payment", farm |-> farm]))
  /\ UNCHANGED <<farms, productions, payments, nextOid>>

\* getPricePerLiterByFarmAndMonth up to the end of farmRepository.getFarmById
GetMonth_getFarm(c, farmId, year, month) ==
  /\ Free(c)
  /\ LET args == [op |-> "getMonth", id |-> farmId, year |-> year, month |-> month]
         farm == getFarmById(farmId)
     IN IF ~validObjectId(farmId)
        THEN Respond(c, args, ErrorResponse(InvalidIdError))
        ELSE IF farm = <<>>
        THEN Respond(c, args, MessageResponse(FarmNotFound))
        ELSE Enter(c, Merge(args, [pc |-> "gm_payment", farm |-> farm]))
  /\ UNCHANGED <<farms, productions, payments, nextOid>>

GetMonth_getPaymentMutLive(c) ==
  /\ calls[c].pc = "gm_payment"
  /\ LET call == calls[c]
         found == MatchingPayments(call.id, call.year, call.month)
     IN IF found = {}
        THEN Respond(c, <<>>, MessageResponse(NoPaymentForPeriod))
        ELSE \E payment \in found :
               Continue(c, [pc |-> "gm_convert", items |-> <<payment>>,
                            conv |-> <<Pending>>,
                            price |-> <<_calculatePricePerLiter(
                                          call.farm[1].distance_to_factory_km,
                                          SumVolumes(
                                            getMilkProductionsByYearAndMonth(
                                              call.id,
                                              startOfMonth(call.year, call.month),
                                              endOfMonth(call.year, call.month))),
                                          call.month)>>])
  /\ UNCHANGED <<farms, productions, payments, nextOid>>

GetMonth_getPaymentMutLazyCreate(c) ==
  /\ calls[c].pc = "gm_payment"
  /\ LET call == calls[c]
         found == MatchingPayments(call.id, call.year, call.month)
     IN IF found = {}
        THEN /\ Respond(c, <<>>, MessageResponse(NoPaymentForPeriod))
             /\ payments' = payments \cup
                  {insertedPayment(
                     paymentDataFormatted(call.farm[1], {}, call.id, call.year,
                                          call.month), nextOid.payments)}
             /\ nextOid' = [nextOid EXCEPT !.payments = @ + 1]
        ELSE /\ \E payment \in found :
                  Continue(c, [pc |-> "gm_convert", items |-> <<payment>>,
                               conv |-> <<Pending>>,
                               price |-> <<_calculatePricePerLiter(
                                             call.farm[1].distance_to_factory_km,
                                             payment.total_volume_liters,
                                             call.month)>>])
             /\ UNCHANGED <<payments, nextOid>>
  /\ UNCHANGED <<farms, productions>>

\* from the findOne of the snapshot to the start of convert()
GetMonth_getPayment(c) ==
  /\ calls[c].pc = "gm_payment"
  /\ LET call == calls[c]
         found == MatchingPayments(call.id, call.year, call.month)
     IN IF found = {}
        THEN Respond(c, <<>>, MessageResponse(NoPaymentForPeriod))
        ELSE \E payment \in found :
               Continue(c, [pc |-> "gm_convert", items |-> <<payment>>,
                            conv |-> <<Pending>>,
                            price |-> <<_calculatePricePerLiter(
                                          call.farm[1].distance_to_factory_km,
                                          payment.total_volume_liters,
                                          call.month)>>])
  /\ UNCHANGED <<farms, productions, payments, nextOid>>

\* convert() settles and the call returns or throws
GetMonth_convert(c, outcome) ==
  /\ calls[c].pc = "gm_convert"
  /\ Respond(c, [conv |-> <<outcome>>],
             monthResult(calls[c].items[1], calls[c].price[1], outcome))
  /\ UNCHANGED <<farms, productions, payments, nextOid>>

\* ------------------------------- PaymentService.getPricePerLiterByFarmAndYear
NoPaymentForYear == "No payment data found for this year"

\* the object one payments.map callback returns
yearItem(payment, pricePerLiter, rate) ==
  [month |-> payment.month,
   price_per_liter |-> formattedPrices(pricePerLiter, rate),
   total_payment |-> toFixed2(payment.total_payment),
   total_volume_liters |-> toFixed2(Num(payment.total_volume_liters * 1000))]

\* the subsequence of seq at the indices that satisfy keep
RECURSIVE SelectIdx(_, _, _)
SelectIdx(seq, keep, i) ==
  IF i > Len(seq) THEN <<>>
  ELSE (IF keep[i] THEN <<seq[i]>> ELSE <<>>) \o SelectIdx(seq, keep, i + 1)

yearOutcomeMutPartial(items, prices, conv) ==
  IF \E i \in DOMAIN conv : conv[i].st = "pending" THEN <<>>
  ELSE <<DataResponse(200,
           SelectIdx([i \in DOMAIN items |-> yearItem(items[i], prices[i], conv[i].rate)],
                     [i \in DOMAIN items |-> conv[i].st = "ok"], 1))>>

\* await Promise.all(payments.map(...)): rejected as soon as one conversion
\* fails, fulfilled in the order of payments once all have converted, and
\* until then pending (the empty sequence)
yearOutcome(items, prices, conv) ==
  IF \E i \in DOMAIN conv : conv[i].st = "fail"
  THEN <<ErrorResponse(ConversionFailed)>>
  ELSE IF \A i \in DOMAIN conv : conv[i].st = "ok"
  THEN <<DataResponse(200,
           [i \in DOMAIN items |-> yearItem(items[i], prices[i], conv[i].rate)])>>
  ELSE <<>>

\* getPricePerLiterByFarmAndYear up to the end of farmRepository.getFarmById
GetYear_getFarm(c, farmId, year) ==
  /\ Free(c)
  /\ LET args == [op |-> "getYear", id |-> farmId, year |-> year]
         farm == getFarmById(farmId)
     IN IF ~validObjectId(farmId)
        THEN Respond(c, args, ErrorResponse(InvalidIdError))
        ELSE IF farm = <<>>
        THEN Respond(c, args, MessageResponse(FarmNotFound))
        ELSE Enter(c, Merge(args, [pc |-> "gy_payments", farm |-> farm]))
  /\ UNCHANGED <<farms, productions, payments, nextOid>>

\* from the find of the year's snapshots to the start of every convert()
GetYear_getPayments(c) ==
  /\ calls[c].pc = "gy_payments"
  /\ LET call == calls[c]
     IN \E found \in findByFarmAndYear(call.id, call.year) :
          IF found = <<>>
          THEN Respond(c, <<>>, MessageResponse(NoPaymentForYear))
          ELSE Continue(c, [pc |-> "gy_convert", items |-> found,
                            conv |-> [i \in DOMAIN found |-> Pending],
                            price |-> [i \in DOMAIN found |->
                                         _calculatePricePerLiter(
                                           call.farm[1].distance_to_factory_km,
                                           found[i].total_volume_liters,
                                           found[i].month)]])
  /\ UNCHANGED <<farms, productions, payments, nextOid>>

\* the convert() of the i-th snapshot settles
GetYear_convert(c, i, outcome) ==
  /\ calls[c].pc = "gy_convert"
  /\ i \in DOMAIN calls[c].conv
  /\ calls[c].conv[i].st = "pending"
  /\ LET conv == [calls[c].conv EXCEPT ![i] = outcome]
         settled == yearOutcome(calls[c].items, calls[c].price, conv)
     IN IF settled = <<>>
        THEN Continue(c, [conv |-> conv])
        ELSE Respond(c, [conv |-> conv], settled[1])
  /\ UNCHANGED <<farms, productions, payments, nextOid>>

\* ----------------------------------- PaymentService.updatePayment / deletePayment
updateOneMutRecompute(collection, id, patch) ==
  {IF d._id = id
   THEN LET m == Merge(d, Merge(patch, [updatedAt |-> LaterTime]))
        IN [m EXCEPT !.total_payment =
                       JsMul(m.price_per_liter, Num(m.total_volume_liters))]
   ELSE d : d \in collection}

\* collection.updateOne({_id: id}, {$set: {...patch, updatedAt: new Date()}})
updateOne(collection, id, patch) ==
  {IF d._id = id THEN Merge(d, Merge(patch, [updatedAt |-> LaterTime])) ELSE d :
     d \in collection}

\* collection.deleteOne({_id: id})
deleteOne(collection, id) == {d \in collection : d._id # id}

\* A request of a single step awaits nothing that another request could
\* interleave with: it takes no slot, and it is served while no answer of a
\* slot waits to be sent.  A malformed identifier makes _formatObjectId throw
\* before the repository is called, and the controller answers 500.
Quiet == \A c \in Slots : calls[c].pc # "done"

\* PATCH /api/payments/{id}: updatePayment, service and repository
UpdatePayment(paymentId, paymentData) ==
  /\ Quiet
  /\ payments' = IF validObjectId(paymentId)
                 THEN updateOne(payments, paymentId, paymentData)
                 ELSE payments
  /\ UNCHANGED <<farms, productions, nextOid, calls, calc>>

\* DELETE /api/payments/{id}: deletePayment, service and repository
DeletePayment(paymentId) ==
  /\ Quiet
  /\ payments' = IF validObjectId(paymentId)
                 THEN deleteOne(payments, paymentId)
                 ELSE payments
  /\ UNCHANGED <<farms, productions, nextOid, calls, calc>>

\* ------------------------------------------------------ MilkProductionService
\* insertOne of a production; the timestamps of productions and farms, which
\* no payment operation reads, are left out of their documents
insertedProduction(farm_id, farmer_id, date, volume_liters, oid) ==
  [_id |-> oid, farm_id |-> farm_id, farmer_id |-> farmer_id, date |-> date,
   volume_liters |-> volume_liters]

CreateMilkProductionMutRefresh(farm_id, date, volume_liters) ==
  /\ Quiet
  /\ Inserted < MaxDocs
  /\ nextOid.productions <= MaxProductions
  /\ validObjectId(farm_id)
  /\ productions' = productions \cup
       {insertedProduction(farm_id, DefaultFarmerId, date, volume_liters,
                           nextOid.productions)}
  /\ payments' =
       {IF d.farm_id = farm_id /\ d.year = date.year /\ d.month = date.month
        THEN [d EXCEPT !.total_volume_liters = @ + volume_liters]
        ELSE d : d \in payments}
  /\ nextOid' = [nextOid EXCEPT !.productions = @ + 1]
  /\ UNCHANGED <<farms, calls, calc>>

\* POST /api/milk-productions: createMilkProduction, service and repository;
\* the record is inserted for the farm_id and the farmer_id of the body,
\* whatever farms are stored
MilkProductionService_createMilkProduction(farm_id, farmer_id, date, volume_liters) ==
  /\ Quiet
  /\ Inserted < MaxDocs
  /\ nextOid.productions <= MaxProductions
  /\ IF validObjectId(farm_id) /\ validObjectId(farmer_id)
     THEN /\ productions' = productions \cup
               {insertedProduction(farm_id, farmer_id, date, volume_liters,
                                   nextOid.productions)}
          /\ nextOid' = [nextOid EXCEPT !.productions = @ + 1]
     ELSE UNCHANGED <<productions, nextOid>>
  /\ UNCHANGED <<farms, payments, calls, calc>>

\* the same for the records of one farmer
CreateMilkProduction(farm_id, date, volume_liters) ==
  MilkProductionService_createMilkProduction(farm_id, DefaultFarmerId, date,
                                             volume_liters)

\* PATCH /api/milk-productions/{id}: updateMilkProduction
UpdateMilkProduction(milkProductionId, milkProductionData) ==
  /\ Quiet
  /\ productions' = IF validObjectId(milkProductionId)
                    THEN {IF d._id = milkProductionId
                          THEN Merge(d, milkProductionData) ELSE d :
                            d \in productions}
                    ELSE productions
  /\ UNCHANGED <<farms, payments, nextOid, calls, calc>>

\* DELETE /api/milk-productions/{id}: deleteMilkProduction
DeleteMilkProduction(milkProductionId) ==
  /\ Quiet
  /\ productions' = IF validObjectId(milkProductionId)
                    THEN deleteOne(productions, milkProductionId)
                    ELSE productions
  /\ UNCHANGED <<farms, payments, nextOid, calls, calc>>

\* ------------------------------------------------------------------ FarmService
\* POST /api/farms: createFarm, service and repository
FarmService_createFarm(farmer_id, distance_to_factory_km) ==
  /\ Quiet
  /\ Inserted < MaxDocs
  /\ nextOid.farms <= MaxFarms
  /\ IF validObjectId(farmer_id)
     THEN /\ farms' = farms \cup
               {[_id |-> nextOid.farms, farmer_id |-> farmer_id,
                 distance_to_factory_km |-> distance_to_factory_km]}
          /\ nextOid' = [nextOid EXCEPT !.farms = @ + 1]
     ELSE UNCHANGED <<farms, nextOid>>
  /\ UNCHANGED <<productions, payments, calls, calc>>

\* the same for the farms of one farmer
CreateFarm(distance_to_factory_km) ==
  FarmService_createFarm(DefaultFarmerId, distance_to_factory_km)

\* PATCH /api/farms/{id}: updateFarm
UpdateFarm(farmId, distance_to_factory_km) ==
  /\ Quiet
  /\ farms' = IF validObjectId(farmId)
              THEN {IF f._id = farmId
                    THEN [f EXCEPT !.distance_to_factory_km = distance_to_factory_km]
                    ELSE f : f \in farms}
              ELSE farms
  /\ UNCHANGED <<productions, payments, nextOid, calls, calc>>

\* ------------------------- FarmService.deleteFarm, FarmerService.deleteFarmerCascade
\* Both start their deletes together under Promise.all and answer when the
\* last has settled; the deletes reach the database in any order, and other
\* requests are served in between.  The farmers collection, which nothing
\* else in the model reads, is not part of the state.
DeleteFarm_start(c, farmId) ==
  /\ Free(c)
  /\ LET args == [op |-> "deleteFarm", id |-> farmId]
     IN IF ~validObjectId(farmId)
        THEN Respond(c, args, ErrorResponse(InvalidIdError))
        ELSE Enter(c, Merge(args, [pc |-> "deleting",
                                   pending |-> {"farms", "milk_production"}]))
  /\ UNCHANGED <<farms, productions, payments, nextOid>>

DeleteFarmerCascade_start(c, farmerId) ==
  /\ Free(c)
  /\ LET args == [op |-> "deleteFarmerCascade", id |-> farmerId]
     IN IF ~validObjectId(farmerId)
        THEN Respond(c, args, ErrorResponse(InvalidIdError))
        ELSE Enter(c, Merge(args, [pc |-> "deleting",
                                   pending |-> {"farms", "milk_production"}]))
  /\ UNCHANGED <<farms, productions, payments, nextOid>>

\* one delete of the call in slot c has settled
Settle(c, collection) ==
  LET pending == calls[c].pending \ {collection}
  IN IF pending = {}
     THEN Respond(c, [pending |-> pending], DataResponse(200, <<>>))
     ELSE Continue(c, [pending |-> pending])

\* farmRepository.deleteFarm: deleteOne({_id: farmId})
DeleteFarm_farms(c) ==
  /\ calls[c].pc = "deleting" /\ calls[c].op = "deleteFarm"
  /\ "farms" \in calls[c].pending
  /\ farms' = deleteOne(farms, calls[c].id)
  /\ Settle(c, "farms")
  /\ UNCHANGED <<productions, payments, nextOid>>

\* milkProductionRepository.deleteAllMilkProductionsByFarmId: deleteMany({farm_id})
DeleteFarm_milkProductions(c) ==
  /\ calls[c].pc = "deleting" /\ calls[c].op = "deleteFarm"
  /\ "milk_production" \in calls[c].pending
  /\ productions' = {p \in productions : p.farm_id # calls[c].id}
  /\ Settle(c, "milk_production")
  /\ UNCHANGED <<farms, payments, nextOid>>

\* farmRepository.deleteAllFarmsByFarmerId: deleteMany({farmer_id})
DeleteFarmerCascade_farms(c) ==
  /\ calls[c].pc = "deleting" /\ calls[c].op = "deleteFarmerCascade"
  /\ "farms" \in calls[c].pending
  /\ farms' = {f \in farms : f.farmer_id # calls[c].id}
  /\ Settle(c, "farms")
  /\ UNCHANGED <<productions, payments, nextOid>>

\* milkProductionRepository.deleteAllMilkProductionsByFarmerId: deleteMany({farmer_id})
DeleteFarmerCascade_milkProductions(c) ==
  /\ calls[c].pc = "deleting" /\ calls[c].op = "deleteFarmerCascade"
  /\ "milk_production" \in calls[c].pending
  /\ productions' = {p \in productions : p.farmer_id # calls[c].id}
  /\ Settle(c, "milk_production")
  /\ UNCHANGED <<farms, payments, nextOid>>

\* ------------------------------------------------- _executeQuery: the catch
\* A storage query of a payment operation is rejected, by connect() or by the
\* driver: _executeQuery rethrows, no service method catches, and the
\* controller answers 500.
DatabaseOperationFailed == "Database operation failed"

\* the pcs at which a payment operation awaits a storage query
AwaitsQuery == {"cp_productions", "cp_insert", "gm_payment", "gy_payments"}

\* farmRepository.getFarmById, the first query of the three operations, is
\* rejected
GetFarmFails(c, op, farmId, year, month) ==
  /\ Free(c)
  /\ validObjectId(farmId)
  /\ Respond(c, [op |-> op, id |-> farmId, year |-> year,
                 month |-> IF op = "getYear" THEN 0 ELSE month,
                 failures |-> calls[c].failures + 1],
             ErrorResponse(DatabaseOperationFailed))
  /\ UNCHANGED <<farms, productions, payments, nextOid>>

QueryFailsMutRetry(c) ==
  /\ calls[c].pc \in AwaitsQuery
  /\ calls[c].failures = 0
  /\ Continue(c, [failures |-> calls[c].failures + 1])
  /\ UNCHANGED <<farms, productions, payments, nextOid>>

\* the query the operation in slot c awaits is rejected
QueryFails(c) ==
  /\ calls[c].pc \in AwaitsQuery
  /\ Respond(c, [failures |-> calls[c].failures + 1],
             ErrorResponse(DatabaseOperationFailed))
  /\ UNCHANGED <<farms, productions, payments, nextOid>>

\* ------------------------------------------------------------ AuthMiddleware
NoTokenProvided == "Access denied. No token provided."
InvalidToken == "Invalid token."

\* AuthService.verifyToken: jwt.verify(token, SECRET_KEY) returns the payload
\* or throws
AuthService_verifyToken(token) == token = "signed"

AuthMiddleware_verifyTokenMutNext(c, token) ==
  /\ Free(c)
  /\ calls[c].token = NoToken
  /\ IF token = NoToken
     THEN Respond(c, <<>>, Unauthorized(NoTokenProvided))
     ELSE Continue(c, [token |-> token])
  /\ UNCHANGED <<farms, productions, payments, nextOid>>

\* AuthMiddleware.verifyToken(), the first handler of every route: it answers
\* 401 or hands the request on with next()
AuthMiddleware_verifyToken(c, token) ==
  /\ Free(c)
  /\ calls[c].token = NoToken
  /\ IF token = NoToken
     THEN Respond(c, <<>>, Unauthorized(NoTokenProvided))
     ELSE IF ~AuthService_verifyToken(token)
     THEN Respond(c, <<>>, Unauthorized(InvalidToken))
     ELSE Continue(c, [token |-> token])
  /\ UNCHANGED <<farms, productions, payments, nextOid>>

\* next() has handed the request of slot c on to the route's controller
Passed(c) == calls[c].token # NoToken

\* ------------------------------------- single-step requests and their answers
\* The requests of a single step once more, served in a slot that keeps the
\* answer the controller builds.
updateResult(collection, id) ==
  DataResponse(200, <<[matchedCount |-> Cardinality({d \in collection : d._id = id})]>>)

deleteResult(collection, id) ==
  DataResponse(200, <<[deletedCount |-> Cardinality({d \in collection : d._id = id})]>>)

\* PaymentController.updatePayment
PaymentController_updatePayment(c, paymentId, paymentData) ==
  /\ Free(c)
  /\ LET args == [op |-> "updatePayment", id |-> paymentId]
     IN IF ~validObjectId(paymentId)
        THEN /\ Respond(c, args, ErrorResponse(InvalidIdError))
             /\ UNCHANGED payments
        ELSE /\ payments' = updateOne(payments, paymentId, paymentData)
             /\ Respond(c, args, updateResult(payments, paymentId))
  /\ UNCHANGED <<farms, productions, nextOid>>

PaymentController_deletePaymentMutNoFormat(c, paymentId) ==
  /\ Free(c)
  /\ payments' = deleteOne(payments, paymentId)
  /\ Respond(c, [op |-> "deletePayment", id |-> paymentId],
             deleteResult(payments, paymentId))
  /\ UNCHANGED <<farms, productions, nextOid>>

\* PaymentController.deletePayment
PaymentController_deletePayment(c, paymentId) ==
  /\ Free(c)
  /\ LET args == [op |-> "deletePayment", id |-> paymentId]
     IN IF ~validObjectId(paymentId)
        THEN /\ Respond(c, args, ErrorResponse(InvalidIdError))
             /\ UNCHANGED payments
        ELSE /\ payments' = deleteOne(payments, paymentId)
             /\ Respond(c, args, deleteResult(payments, paymentId))
  /\ UNCHANGED <<farms, productions, nextOid>>

\* MilkProductionController.createMilkProduction
MilkProductionController_createMilkProduction(c, farm_id, date, volume_liters) ==
  /\ Free(c)
  /\ Inserted < MaxDocs
  /\ nextOid.productions <= MaxProductions
  /\ LET args == [op |-> "createMilkProduction", id |-> farm_id]
     IN IF ~validObjectId(farm_id)
        THEN /\ Respond(c, args, ErrorResponse(InvalidIdError))
             /\ UNCHANGED <<productions, nextOid>>
        ELSE /\ productions' = productions \cup
                  {insertedProduction(farm_id, DefaultFarmerId, date,
                                      volume_liters, nextOid.productions)}
             /\ nextOid' = [nextOid EXCEPT !.productions = @ + 1]
             /\ Respond(c, args,
                        DataResponse(201, <<[insertedId |-> nextOid.productions]>>))
  /\ UNCHANGED <<farms, payments>>

\* MilkProductionController.updateMilkProduction
MilkProductionController_updateMilkProduction(c, milkProductionId, milkProductionData) ==
  /\ Free(c)
  /\ LET args == [op |-> "updateMilkProduction", id |-> milkProductionId]
     IN IF ~validObjectId(milkProductionId)
        THEN /\ Respond(c, args, ErrorResponse(InvalidIdError))
             /\ UNCHANGED productions
        ELSE /\ productions' = {IF d._id = milkProductionId
                                THEN Merge(d, milkProductionData) ELSE d :
                                  d \in productions}
             /\ Respond(c, args, updateResult(productions, milkProductionId))
  /\ UNCHANGED <<farms, payments, nextOid>>

\* MilkProductionController.deleteMilkProduction
MilkProductionController_deleteMilkProduction(c, milkProductionId) ==
  /\ Free(c)
  /\ LET args == [op |-> "deleteMilkProduction", id |-> milkProductionId]
     IN IF ~validObjectId(milkProductionId)
        THEN /\ Respond(c, args, ErrorResponse(InvalidIdError))
             /\ UNCHANGED productions
        ELSE /\ productions' = deleteOne(productions, milkProductionId)
             /\ Respond(c, args, deleteResult(productions, milkProductionId))
  /\ UNCHANGED <<farms, payments, nextOid>>

\* ------------------- MilkProductionService.getMilkProductionByYearAndMonth
NoMilkProductionData == "No milk production data found for this period"

SortedByDate(seq) ==
  \A i \in 1..(Len(seq) - 1) : InstantLE(seq[i].date, seq[i + 1].date)

\* the $sort {date: 1} and $project {date: 1, volume_liters: 1} stages after
\* the $match: records of equal date come in any order
dailyProductions(farmId, start, end) ==
  {s \in Orderings({[_id |-> p._id, date |-> p.date,
                     volume_liters |-> p.volume_liters] :
                      p \in getMilkProductionsByYearAndMonth(farmId, start, end)}) :
     SortedByDate(s)}

\* milkProductions.reduce((sum, production) => sum + production.volume_liters, 0)
RECURSIVE totalLiters(_)
totalLiters(milkProductions) ==
  IF milkProductions = <<>> THEN 0
  ELSE Head(milkProductions).volume_liters + totalLiters(Tail(milkProductions))

averageLitersMutTruncate(milkProductions) ==
  LET q == JsDiv(Num(totalLiters(milkProductions) * 1000), Num(Len(milkProductions)))
  IN [kind |-> q.kind, cents |-> IF q.kind = "num" THEN q.v \div 10 ELSE q.v]

\* parseFloat(totalLiters / milkProductions.length).toFixed(2)
averageLiters(milkProductions) ==
  toFixed2(JsDiv(Num(totalLiters(milkProductions) * 1000),
                 Num(Len(milkProductions))))

monthlyProductionMutZeroTotal(milkProductions) ==
  DataResponse(200, <<[dailyProductions |-> milkProductions,
                       averageLiters |-> averageLiters(milkProductions)]>>)

\* what the service returns for the records the repository gave
monthlyProduction(milkProductions) ==
  IF Len(milkProductions) = 0
  THEN MessageResponse(NoMilkProductionData)
  ELSE DataResponse(200, <<[dailyProductions |-> milkProductions,
                            averageLiters |-> averageLiters(milkProductions)]>>)

\* MilkProductionController.getMilkProductionByYearAndMonth: the query of the
\* route parsed with parseInt, the service, the answer
MilkProductionController_getMilkProductionByYearAndMonth(c, farmId, year, month) ==
  /\ Free(c)
  /\ LET args == [op |-> "getMilkProduction", id |-> farmId, year |-> year,
                  month |-> month]
     IN IF ~validObjectId(farmId)
        THEN Respond(c, args, ErrorResponse(InvalidIdError))
        ELSE \E milkProductions \in
                  dailyProductions(farmId, startOfMonth(year, month),
                                   endOfMonth(year, month)) :
               Respond(c, args, monthlyProduction(milkProductions))
  /\ UNCHANGED <<farms, productions, payments, nextOid>>

\* --------------------------------------------------- the calculator on its own
CalcDistances == {0, 30, 50, 51, 80}
CalcMonths == 1..12
CalcVolumes == {0, 1, 10000, 10001, 15000}

\* a caller holds the arguments of _calculatePricePerLiter
InitPrice ==
  /\ farms = {} /\ productions = {} /\ payments = {}
  /\ nextOid = [farms |-> 1, productions |-> 1, payments |-> 1]
  /\ calls = [c \in Slots |-> IdleCall]
  /\ calc \in {[st |-> "args", distance |-> d, volume |-> v, month |-> m,
                price |-> NaN] :
                 d \in CalcDistances, v \in CalcVolumes, m \in CalcMonths}

\* the call returns
Calculate ==
  /\ calc.st = "args"
  /\ calc' = [calc EXCEPT !.st = "returned",
                          !.price = _calculatePricePerLiter(
                                      calc.distance, calc.volume, calc.month)]
  /\ UNCHANGED <<farms, productions, payments, nextOid, calls>>

NextPrice == Calculate

SpecPrice == InitPrice /\ [][NextPrice]_vars

\* --------------------------------------------------- the aggregator on its own
MaxRecords == 3
AverageVolumes == {1, 2, 5, 6000}

\* the records the repository has given: any volumes, dates ascending
RepositoryAnswers ==
  UNION {[1..n -> AverageVolumes] : n \in 0..MaxRecords}

\* the service holds the records the repository gave for a farm and month
InitAverage ==
  /\ farms = {} /\ productions = {} /\ payments = {}
  /\ nextOid = [farms |-> 1, productions |-> 1, payments |-> 1]
  /\ calls = [c \in Slots |-> IdleCall]
  /\ calc \in {[st |-> "records",
                milkProductions |->
                  [i \in DOMAIN volumes |->
                     [_id |-> i, date |-> Instant(2024, 7, i, 0),
                      volume_liters |-> volumes[i]]],
                result |-> NoResult] : volumes \in RepositoryAnswers}

\* getMilkProductionByYearAndMonth from the repository's answer to its return
Aggregate ==
  /\ calc.st = "records"
  /\ calc' = [calc EXCEPT !.st = "returned",
                          !.result = monthlyProduction(calc.milkProductions)]
  /\ UNCHANGED <<farms, productions, payments, nextOid, calls>>

NextAverage == Aggregate

SpecAverage == InitAverage /\ [][NextAverage]_vars

\* ------------------------------------------------ the query window on its own
WindowYears == {2023, 2024}
LastMillisecondOfDay == 86399999

\* the instants a production record can be dated at: the first and the last
\* second and the last millisecond of the days that begin or may end a month
RecordInstants ==
  {Instant(y, m, d, ms) :
     y \in WindowYears, m \in 1..12, d \in {1, 28, 29, 30, 31},
     ms \in {0, LastSecondOfDay * 1000, LastMillisecondOfDay}}

\* a caller holds a year and a month, and the collection a record's date
InitWindow ==
  /\ farms = {} /\ productions = {} /\ payments = {}
  /\ nextOid = [farms |-> 1, productions |-> 1, payments |-> 1]
  /\ calls = [c \in Slots |-> IdleCall]
  /\ calc \in {[st |-> "args", year |-> y, month |-> m, date |-> d,
                start |-> d, end |-> d, matches |-> FALSE] :
                 y \in WindowYears, m \in 1..12,
                 d \in {i \in RecordInstants : i.day <= daysInMonth(i.year, i.month)}}

\* startOfMonth and endOfMonth are computed and the $match is applied to the
\* record's date
MatchWindow ==
  /\ calc.st = "args"
  /\ LET start == startOfMonth(calc.year, calc.month)
         end == endOfMonth(calc.year, calc.month)
     IN calc' = [calc EXCEPT !.st = "matched", !.start = start, !.end = end,
                             !.matches = InstantLE(start, calc.date)
                                         /\ InstantLE(calc.date, end)]
  /\ UNCHANGED <<farms, productions, payments, nextOid, calls>>

NextWindow == MatchWindow

SpecWindow == InitWindow /\ [][NextWindow]_vars

\* ---------------------------------------------------------------- behaviours
\* the steps of the createPayment requests served in the slots of S
CreatePaymentSteps(S) ==
  \/ \E c \in S, id \in ArgIds(farms), y \in Years, m \in Months :
       CreatePayment_getFarm(c, id, y, m)
  \/ \E c \in S : CreatePayment_getProductions(c)
  \/ \E c \in S : CreatePayment_insert(c)

\* the steps of the month reads served in the slots of S
GetMonthSteps(S) ==
  \/ \E c \in S, id \in ArgIds(farms), y \in Years, m \in Months :
       GetMonth_getFarm(c, id, y, m)
  \/ \E c \in S : GetMonth_getPayment(c)
  \/ \E c \in S, o \in ConversionOutcomes : GetMonth_convert(c, o)

\* the steps of the year reads served in the slots of S
GetYearSteps(S) ==
  \/ \E c \in S, id \in ArgIds(farms), y \in Years : GetYear_getFarm(c, id, y)
  \/ \E c \in S : GetYear_getPayments(c)
  \/ \E c \in S, i \in 1..MaxDocs, o \in ConversionOutcomes :
       GetYear_convert(c, i, o)

\* the writes of payments and of milk productions
SnapshotAndProductionWrites ==
  \/ \E id \in ArgIds(payments), patch \in PaymentPatches : UpdatePayment(id, patch)
  \/ \E id \in ArgIds(payments) : DeletePayment(id)
  \/ \E id \in ArgIds(farms), d \in ProductionDates, v \in Volumes :
       CreateMilkProduction(id, d, v)
  \/ \E id \in ArgIds(productions), patch \in ProductionPatches :
       UpdateMilkProduction(id, patch)
  \/ \E id \in ArgIds(productions) : DeleteMilkProduction(id)

\* One payment request at a time, of any kind, among the writes of payments
\* and milk productions; a farm keeps the distance it was created with.
Next ==
  \/ CreatePaymentSteps({"a"})
  \/ GetMonthSteps({"a"})
  \/ GetYearSteps({"a"})
  \/ Finish("a")
  \/ SnapshotAndProductionWrites
  \/ \E d \in Distances : CreateFarm(d)

Spec == Init /\ [][Next]_vars

\* Two month reads at a time, among the creation of productions and
\* snapshots and the writes of farms; snapshots are only ever created.
NextFarms ==
  \/ CreatePaymentSteps({"a"})
  \/ GetMonthSteps(Slots)
  \/ \E c \in Slots : Finish(c)
  \/ \E id \in ArgIds(farms), d \in ProductionDates, v \in Volumes :
       CreateMilkProduction(id, d, v)
  \/ \E d \in Distances : CreateFarm(d)
  \/ \E id \in ArgIds(farms), d \in Distances : UpdateFarm(id, d)

SpecFarms == Init /\ [][NextFarms]_vars

\* One payment request at a time among the creation of farms and productions,
\* the request bodies carrying what the routes' validators let through.
NextInputs ==
  \/ \E id \in ArgIds(farms), y \in Years, m \in BodyMonths :
       CreatePayment_getFarm("a", id, y, m)
  \/ CreatePayment_getProductions("a")
  \/ CreatePayment_insert("a")
  \/ GetMonthSteps({"a"})
  \/ GetYearSteps({"a"})
  \/ Finish("a")
  \/ \E id \in ArgIds(farms), d \in BodyProductionDates, v \in Volumes :
       CreateMilkProduction(id, d, v)
  \/ \E d \in BodyDistances : CreateFarm(d)

SpecInputs == Init /\ [][NextInputs]_vars

\* the single-step requests served in slot c with their answers kept
AnsweredSteps(c) ==
  \/ \E id \in ArgIds(payments), patch \in PaymentPatches :
       PaymentController_updatePayment(c, id, patch)
  \/ \E id \in ArgIds(payments) : PaymentController_deletePayment(c, id)
  \/ \E id \in ArgIds(farms), d \in RouteProductionDates, v \in Volumes :
       MilkProductionController_createMilkProduction(c, id, d, v)
  \/ \E id \in ArgIds(productions), patch \in ProductionPatches :
       MilkProductionController_updateMilkProduction(c, id, patch)
  \/ \E id \in ArgIds(productions) :
       MilkProductionController_deleteMilkProduction(c, id)
  \/ \E id \in ArgIds(farms), y \in Years, m \in Months :
       MilkProductionController_getMilkProductionByYearAndMonth(c, id, y, m)

\* One request at a time through the routes of payments and milk productions:
\* verifyToken first, then, for the request it hands on, the controller.
NextHttp ==
  \/ \E token \in Tokens : AuthMiddleware_verifyToken("a", token)
  \/ Passed("a") /\ CreatePaymentSteps({"a"})
  \/ Passed("a") /\ GetMonthSteps({"a"})
  \/ Passed("a") /\ GetYearSteps({"a"})
  \/ Passed("a") /\ AnsweredSteps("a")
  \/ Finish("a")
  \/ \E d \in Distances : CreateFarm(d)

SpecHttp == Init /\ [][NextHttp]_vars

\* Two createPayment requests at a time, among the creation of farms and
\* productions.
NextDuplicates ==
  \/ CreatePaymentSteps(Slots)
  \/ \E c \in Slots : Finish(c)
  \/ \E id \in ArgIds(farms), d \in ProductionDates, v \in Volumes :
       CreateMilkProduction(id, d, v)
  \/ \E d \in Distances : CreateFarm(d)

SpecDuplicates == Init /\ [][NextDuplicates]_vars

\* ------------------------------------------------------ MongoDBConnection
\* The one MongoDBConnection object of getMongoInstance(), and the callers of
\* its connect(): startServer, and the _executeQuery of the repositories,
\* which calls connect() for every query.  clients counts the MongoClient
\* objects created; client and db are this.client and this.db, 0 for null,
\* and a database instance is named by the client it was obtained from; got
\* is what connect() returned to a caller.
Callers == {"startServer", "query1", "query2", "query3"}

IdleCaller == [pc |-> "idle", got |-> 0]

InitConnect ==
  /\ farms = {} /\ productions = {} /\ payments = {}
  /\ nextOid = [farms |-> 1, productions |-> 1, payments |-> 1]
  /\ calls = [c \in Slots |-> IdleCall]
  /\ calc = [st |-> "connection", clients |-> 0, client |-> 0, db |-> 0,
             callers |-> [k \in Callers |-> IdleCaller]]

\* connect() up to its await: this.db is returned if set, otherwise a new
\* MongoClient is created and its connect() awaited
MongoDBConnection_connect(k) ==
  /\ calc.st = "connection"
  /\ calc.callers[k].pc = "idle"
  /\ calc' =
       IF calc.db # 0
       THEN [calc EXCEPT !.callers[k] = [pc |-> "returned", got |-> calc.db]]
       ELSE [calc EXCEPT !.clients = @ + 1, !.client = calc.clients + 1,
                         !.callers[k] = [pc |-> "connecting", got |-> 0]]
  /\ UNCHANGED <<farms, productions, payments, nextOid, calls>>

\* connect() after its await: this.db = this.client.db(this.dbName), returned
MongoDBConnection_connected(k) ==
  /\ calc.st = "connection"
  /\ calc.callers[k].pc = "connecting"
  /\ calc' = [calc EXCEPT !.db = calc.client,
                          !.callers[k] = [pc |-> "returned", got |-> calc.client]]
  /\ UNCHANGED <<farms, productions, payments, nextOid, calls>>

\* the catch of connect(): process.exit(1)
MongoDBConnection_connectFailed(k) ==
  /\ calc.st = "connection"
  /\ calc.callers[k].pc = "connecting"
  /\ calc' = [calc EXCEPT !.st = "exited"]
  /\ UNCHANGED <<farms, productions, payments, nextOid, calls>>

\* a query has run on the instance it received; the repository's next query
\* calls connect() again
ExecuteQuery_return(k) ==
  /\ calc.st = "connection"
  /\ k # "startServer"
  /\ calc.callers[k].pc = "returned"
  /\ calc' = [calc EXCEPT !.callers[k] = IdleCaller]
  /\ UNCHANGED <<farms, productions, payments, nextOid, calls>>

NextConnect ==
  \/ \E k \in Callers : MongoDBConnection_connect(k)
  \/ \E k \in Callers : MongoDBConnection_connected(k)
  \/ \E k \in Callers : MongoDBConnection_connectFailed(k)
  \/ \E k \in Callers : ExecuteQuery_return(k)

SpecConnect == InitConnect /\ [][NextConnect]_vars

\* ------------------------------------------------------ AuthService.register
\* The users collection, on which initializeModels creates no index, and the
\* register requests under way: users holds the documents, nextId the next
\* _id, and each request its email, what getUserByEmail found and its answer.
MaxUsers == 3
Emails == {"ana@farm", "bia@farm"}
Registrations == {"r1", "r2"}
UserAlreadyExists == "User already exists"

IdleRegistration == [pc |-> "idle", email |-> "", found |-> FALSE, status |-> 0,
                     error |-> ""]

InitRegister ==
  /\ farms = {} /\ productions = {} /\ payments = {}
  /\ nextOid = [farms |-> 1, productions |-> 1, payments |-> 1]
  /\ calls = [c \in Slots |-> IdleCall]
  /\ calc = [st |-> "users", users |-> {}, nextId |-> 1,
             regs |-> [r \in Registrations |-> IdleRegistration]]

\* collection.findOne({email}) of the users: is there a match
getUserByEmail(email) == \E u \in calc.users : u.email = email

\* register up to the end of getUserByEmail: "User already exists", answered
\* 400 by the controller, or on to createUser
AuthService_register_getUserByEmail(r, email) ==
  /\ calc.st = "users"
  /\ calc.regs[r].pc = "idle"
  /\ calc.nextId <= MaxUsers
  /\ calc' =
       IF getUserByEmail(email)
       THEN [calc EXCEPT !.regs[r] = [pc |-> "done", email |-> email, found |-> TRUE,
                                      status |-> 400, error |-> UserAlreadyExists]]
       ELSE [calc EXCEPT !.regs[r] = [pc |-> "creating", email |-> email,
                                      found |-> FALSE, status |-> 0, error |-> ""]]
  /\ UNCHANGED <<farms, productions, payments, nextOid, calls>>

\* register from createUser on: insertOne, answered 201
AuthService_register_createUser(r) ==
  /\ calc.st = "users"
  /\ calc.regs[r].pc = "creating"
  /\ calc' = [calc EXCEPT !.users = @ \cup {[_id |-> calc.nextId,
                                             email |-> calc.regs[r].email]},
                          !.nextId = @ + 1,
                          !.regs[r] = [@ EXCEPT !.pc = "done", !.status = 201]]
  /\ UNCHANGED <<farms, productions, payments, nextOid, calls>>

\* the answer of the register request is sent
AuthController_register_respond(r) ==
  /\ calc.st = "users"
  /\ calc.regs[r].pc = "done"
  /\ calc' = [calc EXCEPT !.regs[r] = IdleRegistration]
  /\ UNCHANGED <<farms, productions, payments, nextOid, calls>>

NextRegister ==
  \/ \E r \in Registrations, email \in Emails :
       AuthService_register_getUserByEmail(r, email)
  \/ \E r \in Registrations : AuthService_register_createUser(r)
  \/ \E r \in Registrations : AuthController_register_respond(r)

SpecRegister == InitRegister /\ [][NextRegister]_vars

\* ---------------------------------------------------- ownership specification
\* Farms of two farmers are created and deleted, alone or with their farmer,
\* in slot "a", while daily records are written and snapshots are taken in
\* slot "b".
OwnershipDates == {Instant(2024, 7, 10, 0)}

NextOwnership ==
  \/ \E farmer_id \in FarmerIds, d \in Distances : FarmService_createFarm(farmer_id, d)
  \/ \E id \in ArgIds(farms), farmer_id \in FarmerIds, d \in OwnershipDates,
        v \in Volumes :
       MilkProductionService_createMilkProduction(id, farmer_id, d, v)
  \/ \E id \in ArgIds(farms) : DeleteFarm_start("a", id)
  \/ DeleteFarm_farms("a")
  \/ DeleteFarm_milkProductions("a")
  \/ \E id \in FarmerIds \cup MalformedIds : DeleteFarmerCascade_start("a", id)
  \/ DeleteFarmerCascade_farms("a")
  \/ DeleteFarmerCascade_milkProductions("a")
  \/ CreatePaymentSteps({"b"})
  \/ \E id \in ArgIds(payments) : DeletePayment(id)
  \/ \E c \in Slots : Finish(c)

SpecOwnership == Init /\ [][NextOwnership]_vars

\* ------------------------------------------------------ failure specification
\* One payment operation at a time, each of its storage queries answered or
\* rejected and each of its conversions resolved or failed.
PaymentReads == {"createPayment", "getMonth", "getYear"}

NextFailures ==
  \/ CreatePaymentSteps({"a"})
  \/ GetMonthSteps({"a"})
  \/ GetYearSteps({"a"})
  \/ \E op \in PaymentReads, id \in ArgIds(farms), y \in Years, m \in Months :
       GetFarmFails("a", op, id, y, m)
  \/ QueryFails("a")
  \/ Finish("a")
  \/ \E id \in ArgIds(farms), d \in ProductionDates, v \in Volumes :
       CreateMilkProduction(id, d, v)
  \/ \E d \in Distances : CreateFarm(d)

SpecFailures == Init /\ [][NextFailures]_vars

\* ------------------------------------------------- reported price specification
\* One payment request at a time, between updates of the farm and of the
\* snapshots.
NextReported ==
  \/ CreatePaymentSteps({"a"})
  \/ GetMonthSteps({"a"})
  \/ Finish("a")
  \/ \E id \in ArgIds(farms), d \in ProductionDates, v \in Volumes :
       CreateMilkProduction(id, d, v)
  \/ \E d \in Distances : CreateFarm(d)
  \/ \E id \in ArgIds(farms), d \in Distances : UpdateFarm(id, d)
  \/ \E id \in ArgIds(payments), patch \in PaymentPatches : UpdatePayment(id, patch)

SpecReported == Init /\ [][NextReported]_vars

\* ----------------------------------------------------- body specification
\* createPayment requests whose bodies carry values of their own for the
\* computed fields, one at a time.
ClientFields ==
  {[price_per_liter |-> Num(999000), total_volume_liters |-> 1,
    total_payment |-> Num(999000)],
   [price_per_liter |-> Num(0), total_volume_liters |-> 0, total_payment |-> Num(0)]}

NextBodies ==
  \/ \E id \in ArgIds(farms), y \in Years, m \in Months,
        others \in {<<>>} \cup {<<b>> : b \in ClientFields} :
       PaymentService_createPayment_getFarm("a", id, y, m, others)
  \/ CreatePayment_getProductions("a")
  \/ CreatePayment_insert("a")
  \/ Finish("a")
  \/ \E id \in ArgIds(farms), d \in ProductionDates, v \in Volumes :
       CreateMilkProduction(id, d, v)
  \/ \E d \in Distances : CreateFarm(d)

SpecBodies == Init /\ [][NextBodies]_vars

\* =================================================================== claims
\* the price the specification states for the calculator's arguments
statedBonusApplies(volume, month) == month \in 7..12 /\ volume > BonusVolumeThreshold
statedPrice(distance, volume, month) ==
  (IF month \in 1..6 THEN FirstSemesterBasePrice ELSE SecondSemesterBasePrice)
  - (IF distance <= NearDistanceLimit THEN NearCostPerKm ELSE FarCostPerKm) * distance
  + (IF statedBonusApplies(volume, month) THEN VolumeBonus ELSE 0)

\* C1: for every distance >= 0, month in 1..12 and volume >= 0, zero
\* included, the calculator returns exactly base price - cost per km *
\* distance + bonus.  The calculator divides by the volume, and at volume 0
\* it returns NaN.
C1_ReturnsStatedPrice ==
  calc.st = "returned" =>
    calc.price = Num(statedPrice(calc.distance, calc.volume, calc.month))

\* C2: the bonus is applied exactly when the month is in 7..12 and the volume
\* is above 10000 litres; it adds exactly 0.01 to the price when it is applied
\* and exactly 0 when it is not.  At volume 0 the term that is added is NaN.
C2_BonusAddsTenOrNothing ==
  calc.st = "returned" =>
    JsSub(calc.price,
          JsSub(Num(basePrice(calc.month)), Num(transportCost(calc.distance))))
      = Num(IF statedBonusApplies(calc.volume, calc.month) THEN VolumeBonus ELSE 0)

\* the daily production records of a farm dated inside a calendar month
recordsOfCalendarMonth(farm_id, year, month) ==
  {p \in productions :
     p.farm_id = farm_id /\ p.date.year = year /\ p.date.month = month}

\* C3: a successful createPayment(farm_id, year, month) adds exactly one
\* Monthly Payment document with the requested farm_id, year and month, whose
\* total_volume_liters is the sum of the volumes of all the farm's records
\* dated inside the requested calendar month, whose price_per_liter is the
\* calculator's result for the farm, that sum and the month, and whose
\* total_payment is price_per_liter * total_volume_liters.  The query window
\* ends at 23:59:59.000 of the last day, so a record of the last 999 ms of
\* the month is left out of the sum.
C3_SnapshotOfCalendarMonth ==
  [][\A c \in Slots :
       /\ (calls[c].pc = "cp_productions" /\ calls'[c].pc = "cp_insert") =>
            LET call == calls[c]
                doc == calls'[c].doc[1]
                total == SumVolumes(recordsOfCalendarMonth(call.id, call.year,
                                                           call.month))
                price == _calculatePricePerLiter(
                           call.farm[1].distance_to_factory_km, total, call.month)
            IN /\ doc.farm_id = call.id
               /\ doc.year = call.year
               /\ doc.month = call.month
               /\ doc.total_volume_liters = total
               /\ doc.price_per_liter = price
               /\ doc.total_payment = JsMul(price, Num(total))
       /\ (calls[c].pc = "cp_insert" /\ calls'[c].pc = "done") =>
            /\ calls'[c].result.status = 201
            /\ \E d \in payments' \ payments :
                 /\ payments' = payments \cup {d}
                 /\ \A f \in DOMAIN calls[c].doc[1] : d[f] = calls[c].doc[1][f]
    ]_vars

\* C4: when createPayment fails because the farm does not exist, or because
\* the farm has no daily production record in the requested month, the call
\* ends with an error (status 500 and an error text, not a result value) and
\* no step of the call has changed the Monthly Payment collection.
C4_FailedCreateLeavesPayments ==
  [][\A c \in Slots :
       /\ (calls[c].pc = "idle" /\ calls'[c].op = "createPayment"
             /\ validObjectId(calls'[c].id) /\ getFarmById(calls'[c].id) = <<>>) =>
            /\ calls'[c].pc = "done"
            /\ calls'[c].result = ErrorResponse(FarmNotFound)
            /\ payments' = payments
       /\ (calls[c].pc = "cp_productions" /\ calls'[c] # calls[c]
             /\ recordsOfCalendarMonth(calls[c].id, calls[c].year,
                                       calls[c].month) = {}) =>
            /\ calls'[c].pc = "done"
            /\ calls'[c].result = ErrorResponse(NoProductionData)
            /\ payments' = payments
       /\ (calls'[c].op = "createPayment" /\ calls'[c].pc = "done"
             /\ calls[c].pc # "done" /\ calls'[c].result.status # 201) =>
            /\ calls'[c].result.status = 500
            /\ calls'[c].result.error # ""
            /\ calls[c].pc # "cp_insert"
            /\ payments' = payments
       /\ (calls'[c].op = "createPayment" /\ calls[c].pc = "idle") =>
            payments' = payments
    ]_vars

\* a createPayment has failed for want of production records while other
\* months of the farm have records
C4_Witness ==
  /\ calls["a"].op = "createPayment"
  /\ calls["a"].pc = "done"
  /\ calls["a"].result = ErrorResponse(NoProductionData)
  /\ \E p \in productions : p.farm_id = calls["a"].id

\* C5: getPricePerLiterByFarmAndYear is all-or-nothing.  As soon as the
\* conversion of one of the year's snapshots has failed, in whatever order the
\* conversions settle, the call is answered with the conversion failure and
\* no list; and a list that is answered has an element for every snapshot that
\* was read, each one converted.
C5_YearAllOrNothing ==
  \A c \in Slots :
    calls[c].op = "getYear" =>
      /\ (\E i \in DOMAIN calls[c].conv : calls[c].conv[i].st = "fail") =>
           /\ calls[c].pc = "done"
           /\ calls[c].result = ErrorResponse(ConversionFailed)
           /\ calls[c].result.list = <<>>
      /\ (calls[c].pc = "done" /\ calls[c].result.list # <<>>) =>
           /\ Len(calls[c].result.list) = Len(calls[c].items)
           /\ \A i \in DOMAIN calls[c].conv : calls[c].conv[i].st = "ok"

\* a year call of two snapshots was rejected after one conversion succeeded
\* and the other failed
C5_Witness ==
  /\ calls["a"].op = "getYear"
  /\ calls["a"].pc = "done"
  /\ calls["a"].result = ErrorResponse(ConversionFailed)
  /\ \E i, j \in DOMAIN calls["a"].conv :
       calls["a"].conv[i].st = "ok" /\ calls["a"].conv[j].st = "fail"

\* the months of the elements of a year list, in list order
listMonths(list) == [i \in DOMAIN list |-> list[i].month]

\* C6 as stated: when all conversions succeed the list has exactly one
\* element for every month that has a stored snapshot, in ascending month
\* order.  Nothing keeps a farm from having two snapshots of one month, and
\* then the month appears twice.
C6_OneElementPerMonth ==
  \A c \in Slots :
    (calls[c].op = "getYear" /\ calls[c].pc = "done"
       /\ calls[c].result.list # <<>>) =>
      LET months == listMonths(calls[c].result.list)
      IN /\ \A i, j \in DOMAIN months : i < j => months[i] < months[j]
         /\ {months[i] : i \in DOMAIN months}
              = {calls[c].items[i].month : i \in DOMAIN calls[c].items}

\* C6, amended: when all conversions succeed the list has exactly one element
\* for every snapshot of the farm and year that the call read, a month with
\* several snapshots appearing once for each of them, in non-decreasing month
\* order; the i-th element is the i-th snapshot read, whatever the order in
\* which the conversions completed.
C6_OneElementPerSnapshot ==
  [][\A c \in Slots :
       /\ (calls[c].pc = "gy_payments" /\ calls'[c].pc = "gy_convert") =>
            LET items == calls'[c].items
            IN /\ {items[i] : i \in DOMAIN items}
                    = {p \in payments :
                         p.farm_id = calls[c].id /\ p.year = calls[c].year}
               /\ Len(items) = Cardinality({items[i] : i \in DOMAIN items})
       /\ (calls'[c].op = "getYear" /\ calls'[c].pc = "done"
             /\ calls'[c].result.list # <<>>) =>
            LET list == calls'[c].result.list
                items == calls'[c].items
            IN /\ Len(list) = Len(items)
               /\ \A i \in DOMAIN list :
                    list[i] = yearItem(items[i], calls'[c].price[i],
                                       calls'[c].conv[i].rate)
               /\ \A i, j \in DOMAIN list :
                    i < j => list[i].month <= list[j].month
    ]_vars

\* a year list with two elements of the same month, the second conversion
\* having completed before the first
C6_Witness ==
  /\ calls["a"].op = "getYear"
  /\ calls["a"].pc = "done"
  /\ Len(calls["a"].result.list) = 2
  /\ calls["a"].result.list[1].month = calls["a"].result.list[2].month
  /\ calls["a"].conv[1].rate # calls["a"].conv[2].rate

\* C7: in getPricePerLiterByFarmAndMonth a failed conversion always reaches
\* the caller as a failure, status 500 with the conversion error; a success
\* result is only ever built from the rate the conversion answered.
C7_MonthConversionFailurePropagates ==
  \A c \in Slots :
    (calls[c].op = "getMonth" /\ calls[c].conv # <<>>) =>
      /\ calls[c].conv[1].st = "fail" =>
           /\ calls[c].pc = "done"
           /\ calls[c].result = ErrorResponse(ConversionFailed)
      /\ (calls[c].pc = "done" /\ calls[c].result.status = 200) =>
           /\ calls[c].conv[1].st = "ok"
           /\ calls[c].result.list[1].price_per_liter
                = formattedPrices(calls[c].price[1], calls[c].conv[1].rate)

\* a month call whose conversion failed has been answered
C7_Witness ==
  /\ calls["a"].op = "getMonth"
  /\ calls["a"].pc = "done"
  /\ calls["a"].conv = <<[st |-> "fail", rate |-> 0]>>
  /\ calls["a"].result.status = 500

\* a step of one of the three milk production writes
MilkProductionWrite ==
  \/ \E id \in ArgIds(farms), d \in ProductionDates, v \in Volumes :
       CreateMilkProduction(id, d, v)
  \/ \E id \in ArgIds(productions), patch \in ProductionPatches :
       UpdateMilkProduction(id, patch)
  \/ \E id \in ArgIds(productions) : DeleteMilkProduction(id)

\* C8: a Monthly Payment snapshot is point-in-time.  Creating, updating or
\* deleting a daily production record, of whatever date, leaves every stored
\* Monthly Payment document as it was, and the collection changes only in the
\* insert of createPayment, in updatePayment or in deletePayment: a step that
\* changes the collection is no milk production write and is one of those.
C8_SnapshotsArePointInTime ==
  [][payments' # payments =>
       /\ productions' = productions
       /\ ~MilkProductionWrite
       /\ \/ \E c \in Slots : calls[c].pc = "cp_insert" /\ calls'[c].pc = "done"
          \/ \E id \in ArgIds(payments), patch \in PaymentPatches :
               UpdatePayment(id, patch)
          \/ \E id \in ArgIds(payments) : DeletePayment(id)
    ]_vars

\* a snapshot that was never patched no longer agrees with the production
\* records of its farm and month
C8_Witness ==
  \E d \in payments :
    /\ d.updatedAt = CreationTime
    /\ d.total_volume_liters
         # SumVolumes(getMilkProductionsByYearAndMonth(
                        d.farm_id, startOfMonth(d.year, d.month),
                        endOfMonth(d.year, d.month)))

\* C9: updatePayment overwrites only the supplied fields and updatedAt of the
\* one snapshot with the given identifier, deletePayment removes only that
\* snapshot, neither recomputes price_per_liter or total_payment, and every
\* other snapshot is left as it was.  (Both requests leave everything but
\* the payments collection alone, so only such steps need be looked at.)
C9_PatchAndDeleteTouchOneSnapshot ==
  [][UNCHANGED <<farms, productions, nextOid, calls>> =>
       /\ \A id \in ArgIds(payments), patch \in PaymentPatches :
            UpdatePayment(id, patch) =>
              payments' =
                {IF d._id = id
                 THEN [f \in DOMAIN d |->
                         IF f \in DOMAIN patch THEN patch[f]
                         ELSE IF f = "updatedAt" THEN LaterTime
                         ELSE d[f]]
                 ELSE d : d \in payments}
       /\ \A id \in ArgIds(payments) :
            DeletePayment(id) => payments' = {d \in payments : d._id # id}
    ]_vars

\* a patched snapshot keeps the total_payment computed for its old volume,
\* beside a snapshot that was not patched
C9_Witness ==
  \E d, e \in payments :
    /\ d.updatedAt = LaterTime
    /\ d.total_volume_liters = 0
    /\ d.total_payment # JsMul(d.price_per_liter, Num(d.total_volume_liters))
    /\ e.updatedAt = CreationTime

\* two month reads with the same arguments have both been answered with a
\* result, and both read the same, unchanged snapshot document
SameSnapshotReadTwice ==
  /\ \A c \in Slots :
       /\ calls[c].op = "getMonth"
       /\ calls[c].pc = "done"
       /\ calls[c].result.status = 200
       /\ calls[c].result.list # <<>>
  /\ calls["a"].id = calls["b"].id
  /\ calls["a"].year = calls["b"].year
  /\ calls["a"].month = calls["b"].month
  /\ calls["a"].items = calls["b"].items

\* C10 as stated: two calls of getPricePerLiterByFarmAndMonth with the same
\* arguments, the snapshot being unchanged between them, return the same
\* price_per_liter and the same total_payment.  The price is computed again
\* at each call from the farm's distance at that time, and its USD part from
\* the rate the conversion answers.
C10_SameSnapshotSameAnswer ==
  SameSnapshotReadTwice =>
    /\ calls["a"].result.list[1].price_per_liter
         = calls["b"].result.list[1].price_per_liter
    /\ calls["a"].result.list[1].total_payment
         = calls["b"].result.list[1].total_payment

\* C10, amended: two such calls return the same total_payment and the same
\* total_volume_liters; the BRL price is the same when both calls read the
\* same distance for the farm, and the whole price_per_liter is the same when
\* in addition both conversions answered the same rate.
C10_SameSnapshotSameTotals ==
  SameSnapshotReadTwice =>
    LET ra == calls["a"].result.list[1]
        rb == calls["b"].result.list[1]
        sameDistance ==
          calls["a"].farm[1].distance_to_factory_km
            = calls["b"].farm[1].distance_to_factory_km
    IN /\ ra.total_payment = rb.total_payment
       /\ ra.total_volume_liters = rb.total_volume_liters
       /\ sameDistance => ra.price_per_liter.BRL = rb.price_per_liter.BRL
       /\ (sameDistance /\ calls["a"].conv = calls["b"].conv) =>
            ra.price_per_liter = rb.price_per_liter

\* the two reads of one snapshot saw different distances, and answer
\* different BRL prices with the same total_payment
C10_Witness ==
  /\ SameSnapshotReadTwice
  /\ calls["a"].farm[1].distance_to_factory_km
       # calls["b"].farm[1].distance_to_factory_km
  /\ calls["a"].conv = calls["b"].conv
  /\ calls["a"].result.list[1].price_per_liter.BRL
       # calls["b"].result.list[1].price_per_liter.BRL
  /\ calls["a"].result.list[1].total_payment
       = calls["b"].result.list[1].total_payment
\* ------------------------------------------------------------------- C11
\* a read for a well-formed identifier that names no farm
MissingFarmRead(c) ==
  /\ calls[c].pc = "idle"
  /\ calls'[c] # calls[c]
  /\ calls'[c].op \in {"getMonth", "getYear"}
  /\ validObjectId(calls'[c].id)
  /\ getFarmById(calls'[c].id) = <<>>

StoredFor(farmId, year, month) ==
  {p \in payments : /\ p.farm_id = farmId
                    /\ ToNumber(p.year) = year
                    /\ ToNumber(p.month) = month}

\* C12: a read for an existing farm that finds no snapshot answers with its
\* "no payment data" result value, having computed no price and started no
\* conversion; and a month read gives that answer only when the collection
\* holds no snapshot that a createPayment stored for the same farm, year and
\* month (here snapshots are never patched nor deleted).
C12_NoDataOnlyWhenNoneStored ==
  [][\A c \in Slots :
       (calls[c].pc \in {"gm_payment", "gy_payments"} /\ calls'[c].pc = "done") =>
         /\ calls'[c].result =
              MessageResponse(IF calls[c].op = "getMonth"
                              THEN NoPaymentForPeriod ELSE NoPaymentForYear)
         /\ calls'[c].price = <<>>
         /\ calls'[c].conv = <<>>
         /\ calls[c].op = "getMonth" =>
              StoredFor(calls[c].id, calls[c].year, calls[c].month) = {}]_vars

\* ------------------------------------------------------------------- C13
\* the months and the distance that the Price Calculator was called with by
\* the request in slot c, if it has called it
calculatorMonths(c) ==
  IF calls[c].op = "createPayment" /\ calls[c].doc # <<>> THEN {calls[c].month}
  ELSE IF calls[c].op = "getMonth" /\ calls[c].price # <<>> THEN {calls[c].month}
  ELSE IF calls[c].op = "getYear" /\ calls[c].price # <<>>
  THEN {calls[c].items[i].month : i \in DOMAIN calls[c].items}
  ELSE {}

calculatorDistances(c) ==
  IF calculatorMonths(c) = {} THEN {}
  ELSE {calls[c].farm[1].distance_to_factory_km}

\* C13: every call of the Price Calculator, from createPayment or from a
\* read, has a month whose number is in 1..12 and a distance that is not
\* negative, whatever requests the validated routes have served before.
C13_CalculatorInputsInRange ==
  \A c \in Slots :
    /\ \A m \in calculatorMonths(c) : ToNumber(m) \in 1..12
    /\ \A d \in calculatorDistances(c) : d >= 0

\* ------------------------------------------------------------------- C14
PaymentOperations ==
  {"getMonth", "getYear", "createPayment", "updatePayment", "deletePayment"}

\* the controller starts a payment operation in slot c with a malformed
\* identifier
MalformedIdRequest(c) ==
  /\ calls[c].pc = "idle"
  /\ calls'[c] # calls[c]
  /\ calls'[c].op \in PaymentOperations
  /\ ~validObjectId(calls'[c].id)

\* C14: every payment operation given a malformed identifier is answered, in
\* the step that starts it, with the error "Invalid ID format" and an HTTP
\* error status; it has read no farm, no production and no snapshot, and no
\* collection has changed.
C14_MalformedIdFailsClearly ==
  [][\A c \in Slots :
       MalformedIdRequest(c) =>
         /\ calls'[c].pc = "done"
         /\ calls'[c].result = ErrorResponse(InvalidIdError)
         /\ calls'[c].result.status >= 400
         /\ calls'[c].farm = <<>>
         /\ calls'[c].items = <<>>
         /\ calls'[c].doc = <<>>
         /\ UNCHANGED <<farms, productions, payments, nextOid>>]_vars

\* a delete for a malformed identifier has been answered while snapshots exist
C14_Witness ==
  /\ calls["a"].op = "deletePayment"
  /\ calls["a"].pc = "done"
  /\ calls["a"].id \in MalformedIds
  /\ calls["a"].result = ErrorResponse(InvalidIdError)
  /\ payments # {}

\* ------------------------------------------------------------------- C15
\* C15: on the routes of payments and milk productions a controller runs, and
\* snapshots and production records are read or written, only for a request
\* whose token verifyToken has accepted; a request that is answered 401 has
\* come with no token or with one that does not verify, has run no
\* controller and has changed no collection.
C15_ControllersBehindVerifyToken ==
  [][/\ \A c \in Slots :
          /\ calls'[c].op # "none" => AuthService_verifyToken(calls'[c].token)
          /\ (calls'[c].result.status = 401 /\ calls[c].result.status # 401) =>
               /\ calls[c] = IdleCall
               /\ calls'[c].op = "none"
               /\ ~AuthService_verifyToken(calls'[c].token)
               /\ calls'[c].farm = <<>> /\ calls'[c].items = <<>>
               /\ calls'[c].doc = <<>>
               /\ UNCHANGED <<farms, productions, payments, nextOid>>
     /\ <<productions, payments>>' # <<productions, payments>> =>
          \E c \in Slots : /\ calls'[c].op # "none"
                           /\ AuthService_verifyToken(calls'[c].token)]_vars

\* a request with a token that does not verify has been answered 401 while
\* production records and snapshots exist
C15_Witness ==
  /\ calls["a"].pc = "done"
  /\ calls["a"].result = Unauthorized(InvalidToken)
  /\ productions # {}
  /\ payments # {}

\* ------------------------------------------------------------------- C16
\* the snapshot that the createPayment of slot c has computed from a positive
\* volume carries base price - transport cost + bonus, whatever its sign, and
\* that price times the volume
UnflooredSnapshot(c) ==
  LET doc == calls[c].doc[1]
      price == Num(statedPrice(calls[c].farm[1].distance_to_factory_km,
                               doc.total_volume_liters, ToNumber(doc.month)))
  IN doc.total_volume_liters > 0 =>
       /\ doc.price_per_liter = price
       /\ doc.total_payment = JsMul(price, Num(doc.total_volume_liters))

\* createPayment in slot c succeeds and persists the snapshot it computed
PersistsComputedSnapshot(c) ==
  (calls[c].pc = "cp_insert" /\ calls'[c].pc = "done") =>
    /\ calls'[c].result.status = 201
    /\ \E p \in payments' \ payments :
         /\ p.price_per_liter = calls[c].doc[1].price_per_liter
         /\ p.total_payment = calls[c].doc[1].total_payment

\* C16 as stated: no floor is applied, the price of 80 km, month 9 and 15000
\* litres being -3.24; createPayment persists the price, negative or zero,
\* and the total computed from it.
C16_NoFloorStatedExample ==
  [][/\ _calculatePricePerLiter(80, 15000, 9) = Num(-3240)
     /\ \A c \in Slots :
          /\ calls'[c].doc # <<>> => UnflooredSnapshot(c)'
          /\ PersistsComputedSnapshot(c)]_vars

\* C16 amended: the same, the price of 80 km, month 9 and 15000 litres being
\* 1.95 - 0.06 * 80 + 0.01 = -2.84.
C16_NoFloor ==
  [][/\ _calculatePricePerLiter(80, 15000, 9) = Num(-2840)
     /\ \A c \in Slots :
          /\ calls'[c].doc # <<>> => UnflooredSnapshot(c)'
          /\ PersistsComputedSnapshot(c)]_vars

\* a createPayment has answered 201 and its snapshot with a negative price
\* and a negative total is stored
C16_Witness ==
  /\ calls["a"].op = "createPayment"
  /\ calls["a"].pc = "done"
  /\ calls["a"].result.status = 201
  /\ \E p \in payments :
       /\ p._id = calls["a"].result.list[1].insertedId
       /\ p.price_per_liter.kind = "num" /\ p.price_per_liter.v < 0
       /\ p.total_payment.kind = "num" /\ p.total_payment.v < 0

\* ------------------------------------------------------------------- C17
\* the snapshots stored for the farm, year and month of document doc
SameKey(doc) ==
  {p \in payments : /\ p.farm_id = doc.farm_id /\ p.year = doc.year
                    /\ p.month = doc.month}

\* the createPayment of slot c has been answered 201
Created(c) ==
  /\ calls[c].op = "createPayment"
  /\ calls[c].pc = "done"
  /\ calls[c].result.status = 201

\* C17: the insert of createPayment succeeds whatever snapshots are stored:
\* it answers 201, keeps every stored snapshot and adds one under a new
\* identifier, so that the snapshots of its farm, year and month are one
\* more; and when two createPayment calls for the same farm, year and month
\* have both succeeded, overlapping or not, two distinct snapshots are stored
\* for that key.
C17_DuplicateSnapshotsAccepted ==
  [][/\ \A c \in Slots :
          (calls[c].pc = "cp_insert" /\ calls'[c].pc = "done") =>
            /\ calls'[c].result.status = 201
            /\ payments \subseteq payments'
            /\ Cardinality(SameKey(calls[c].doc[1])') =
                 Cardinality(SameKey(calls[c].doc[1])) + 1
     /\ (/\ Created("a")' /\ Created("b")'
         /\ calls'["a"].id = calls'["b"].id
         /\ calls'["a"].year = calls'["b"].year
         /\ calls'["a"].month = calls'["b"].month) =>
          /\ calls'["a"].result.list[1].insertedId #
               calls'["b"].result.list[1].insertedId
          /\ \A c \in Slots :
               \E p \in SameKey(calls[c].doc[1])' :
                 p._id = calls'[c].result.list[1].insertedId]_vars

\* two createPayment calls for the same farm, year and month have both been
\* answered 201 and both their snapshots are stored
C17_Witness ==
  /\ Created("a") /\ Created("b")
  /\ calls["a"].doc[1].farm_id = calls["b"].doc[1].farm_id
  /\ calls["a"].doc[1].year = calls["b"].doc[1].year
  /\ calls["a"].doc[1].month = calls["b"].doc[1].month
  /\ Cardinality(SameKey(calls["a"].doc[1])) = 2

\* ------------------------------------------------------------------- C18
\* the aggregator is called in slot c with a well-formed farm identifier
AggregatorCall(c) ==
  /\ calls[c].pc = "idle"
  /\ calls'[c] # calls[c]
  /\ calls'[c].op = "getMilkProduction"
  /\ validObjectId(calls'[c].id)

\* C18: when the farm has no production record dated in the requested month,
\* the aggregator answers with the "no data for this period" message alone,
\* without dailyProductions and without an average; and whatever it answers
\* with dailyProductions holds at least one record, so that it never gives
\* an aggregate of nothing.
C18_NoDataSentinel ==
  [][\A c \in Slots :
       AggregatorCall(c) =>
         /\ recordsOfCalendarMonth(calls'[c].id, calls'[c].year, calls'[c].month) = {} =>
              /\ calls'[c].result = MessageResponse(NoMilkProductionData)
              /\ calls'[c].result.list = <<>>
         /\ calls'[c].result.list # <<>> =>
              /\ calls'[c].result.message = ""
              /\ Len(calls'[c].result.list[1].dailyProductions) >= 1]_vars

\* the aggregator has answered with the sentinel for a farm that has records,
\* none of them in the requested month
C18_Witness ==
  /\ calls["a"].op = "getMilkProduction"
  /\ calls["a"].pc = "done"
  /\ calls["a"].result = MessageResponse(NoMilkProductionData)
  /\ \E p \in productions : p.farm_id = calls["a"].id
  /\ recordsOfCalendarMonth(calls["a"].id, calls["a"].year, calls["a"].month) = {}

\* ------------------------------------------------------------------- C19
\* the farm's records dated in the range of the aggregator call that slot c
\* has just made
recordsInRange(c) ==
  getMilkProductionsByYearAndMonth(
    calls'[c].id, startOfMonth(calls'[c].year, calls'[c].month),
    endOfMonth(calls'[c].year, calls'[c].month))

\* dailyProductions holds exactly the records in range, each once, by date
\* ascending
DailyProductionsInRange(c) ==
  LET daily == calls'[c].result.list[1].dailyProductions
  IN /\ Len(daily) = Cardinality(recordsInRange(c))
     /\ \A p \in recordsInRange(c) :
          \E i \in DOMAIN daily : /\ daily[i]._id = p._id
                                  /\ daily[i].date = p.date
                                  /\ daily[i].volume_liters = p.volume_liters
     /\ \A i \in 1..(Len(daily) - 1) : InstantLE(daily[i].date, daily[i + 1].date)

\* C19: for a farm and month with at least one record in range, the result of
\* the aggregator contains totalVolumeLiters, the sum of the volumes of
\* exactly the farm's records in range, and dailyProductions, exactly those
\* records by date ascending.  The result has the fields dailyProductions and
\* averageLiters only.
C19_TotalAndDailyProductions ==
  [][\A c \in Slots :
       (AggregatorCall(c) /\ recordsInRange(c) # {}) =>
         /\ calls'[c].result.list # <<>>
         /\ DailyProductionsInRange(c)
         /\ "totalVolumeLiters" \in DOMAIN calls'[c].result.list[1]
         /\ calls'[c].result.list[1].totalVolumeLiters =
              SumVolumes(recordsInRange(c))]_vars

\* ------------------------------------------------------------------- C20
\* cents is total / count rounded to two decimal places: no amount of whole
\* cents is nearer to the quotient
RoundedQuotient(cents, total, count) ==
  \A other \in {cents - 1, cents + 1} :
    Abs(count * cents - 100 * total) <= Abs(count * other - 100 * total)

\* C20: for every non-empty sequence of matching records, averageLiters is
\* the sum of their volumes divided by their number, rounded to two decimal
\* places.  (Quotients are exact here; the code rounds the binary
\* floating-point quotient.)
C20_AverageRoundedToCents ==
  (calc.st = "returned" /\ Len(calc.milkProductions) >= 1) =>
    /\ calc.result.list # <<>>
    /\ calc.result.list[1].averageLiters.kind = "num"
    /\ RoundedQuotient(calc.result.list[1].averageLiters.cents,
                       totalLiters(calc.milkProductions),
                       Len(calc.milkProductions))

\* an average of three records that had to be rounded up has been returned
C20_Witness ==
  /\ calc.st = "returned"
  /\ Len(calc.milkProductions) = 3
  /\ calc.result.list # <<>>
  /\ 3 * calc.result.list[1].averageLiters.cents >
       100 * totalLiters(calc.milkProductions)

\* ------------------------------------------------------------------- C21
\* C21: for every year and every month 1..12 the window starts at 00:00:00
\* on day 1 and ends on the true last day of the month, and a record matches
\* it exactly when it is dated in that month, at whatever instant of
\* whatever day.  The window ends at 23:59:59.000 of the last day: a record
\* of the last 999 ms of the month does not match.
C21_WindowIsTheCalendarMonth ==
  calc.st = "matched" =>
    /\ calc.start = Instant(calc.year, calc.month, 1, 0)
    /\ calc.end.year = calc.year /\ calc.end.month = calc.month
    /\ calc.end.day = daysInMonth(calc.year, calc.month)
    /\ calc.matches <=>
         (calc.date.year = calc.year /\ calc.date.month = calc.month)

\* ------------------------------------------------------------------- C22
\* the step is one of the payment operation that slot c is serving
PaymentOperationStep(c) ==
  /\ calls'[c] # calls[c]
  /\ calls'[c].op \in PaymentOperations

\* C22: no step of a payment operation, whether the operation succeeds or
\* fails, creates, modifies or deletes a farm or a production record; and no
\* step of the two reads changes the collection of snapshots.
C22_FarmsAndProductionsReadOnly ==
  [][\A c \in Slots :
       PaymentOperationStep(c) =>
         /\ UNCHANGED <<farms, productions>>
         /\ nextOid'.farms = nextOid.farms
         /\ nextOid'.productions = nextOid.productions
         /\ calls'[c].op \in {"getMonth", "getYear"} => UNCHANGED payments]_vars

\* a month read of a farm with production records has found no snapshot
\* while a snapshot of another month is stored
C22_Witness ==
  /\ calls["a"].op = "getMonth"
  /\ calls["a"].pc = "done"
  /\ calls["a"].result = MessageResponse(NoPaymentForPeriod)
  /\ \E p \in productions : p.farm_id = calls["a"].id
  /\ payments # {}

\* ------------------------------------------------------------------- C23
PaymentNotFound == "Payment not found"

\* a PATCH or DELETE of a snapshot starts in slot c with a well-formed
\* identifier
SnapshotWrite(c) ==
  /\ calls[c].pc = "idle"
  /\ calls'[c] # calls[c]
  /\ calls'[c].op \in {"updatePayment", "deletePayment"}
  /\ validObjectId(calls'[c].id)

\* C23: PATCH and DELETE of a snapshot answer 404 "Payment not found" when
\* no snapshot has the identifier, and 200 only when a snapshot was updated
\* or deleted.  The controller answers 200 with the driver's result whatever
\* its matchedCount or deletedCount.
C23_NotFoundIs404 ==
  [][\A c \in Slots :
       SnapshotWrite(c) =>
         IF \E p \in payments : p._id = calls'[c].id
         THEN calls'[c].result.status = 200
         ELSE /\ calls'[c].result.status = 404
              /\ calls'[c].result.error = PaymentNotFound]_vars

\* ------------------------------------------------------------------- C24
\* no request is under way
Quiescent == \A c \in Slots : calls[c].pc = "idle"

\* C24: after any sequence of createFarm, deleteFarm, deleteFarmerCascade and
\* createMilkProduction operations, every stored daily production record
\* belongs to exactly one existing farm: its farm_id is the _id of a stored
\* farm, and its farmer_id is the farmer_id of that farm.
C24_RecordsBelongToAFarm ==
  Quiescent =>
    \A p \in productions :
      /\ Cardinality({f \in farms : f._id = p.farm_id}) = 1
      /\ \A f \in farms : f._id = p.farm_id => f.farmer_id = p.farmer_id

\* ------------------------------------------------------------------- C25
\* how far a payment operation has come: its storage queries in the order of
\* the code, then its conversions, then its answer
StepRank(pc) ==
  CASE pc = "idle" -> 0
    [] pc \in {"cp_productions", "gm_payment", "gy_payments"} -> 1
    [] pc \in {"cp_insert", "gm_convert", "gy_convert"} -> 2
    [] OTHER -> 3

\* one conversion of the year read in slot c settles and the others stay as
\* they are
OneConversionSettles(c) ==
  /\ calls'[c].pc = "gy_convert"
  /\ DOMAIN calls'[c].conv = DOMAIN calls[c].conv
  /\ \E i \in DOMAIN calls[c].conv :
       /\ calls[c].conv[i].st = "pending"
       /\ calls'[c].conv[i].st # "pending"
       /\ \A j \in DOMAIN calls[c].conv \ {i} : calls'[c].conv[j] = calls[c].conv[j]

\* a query or a conversion of the operation in slot c has failed
HasFailed(call) ==
  \/ call.failures > 0
  \/ \E i \in DOMAIN call.conv : call.conv[i].st = "fail"

\* C25: no payment operation retries.  Within one getPriceByFarmAndMonth,
\* getPriceByFarmAndYear or createPayment call every step issues the next
\* storage query of the code and none an earlier one, so that each query is
\* issued at most once; there is one conversion per snapshot, settled once;
\* and as soon as a query or a conversion has failed the call has failed,
\* with status 500, after that single failure.
C25_NoInternalRetry ==
  [][\A c \in Slots :
       /\ (calls[c].pc \notin {"idle", "done"} /\ calls'[c] # calls[c]) =>
            \/ StepRank(calls'[c].pc) > StepRank(calls[c].pc)
            \/ calls[c].pc = "gy_convert" /\ OneConversionSettles(c)
       /\ calls'[c].pc \in {"gm_convert", "gy_convert", "done"} =>
            Len(calls'[c].conv) <= Len(calls'[c].items)
       /\ (calls'[c].pc # "idle" /\ HasFailed(calls'[c])) =>
            /\ calls'[c].pc = "done"
            /\ calls'[c].result.status = 500
            /\ calls'[c].failures <= 1]_vars

\* createPayment has read the farm, one of its later queries has been
\* rejected, and the call has failed
C25_Witness ==
  /\ calls["a"].op = "createPayment"
  /\ calls["a"].farm # <<>>
  /\ calls["a"].failures = 1
  /\ calls["a"].pc = "done"
  /\ calls["a"].result = ErrorResponse(DatabaseOperationFailed)

C27_OneUserPerEmail ==
  calc.st = "users" =>
    /\ \A email \in Emails :
         Cardinality({u \in calc.users : u.email = email}) <= 1
    /\ \A r \in Registrations :
         calc.regs[r].found =>
           /\ calc.regs[r].pc = "done"
           /\ calc.regs[r].error = UserAlreadyExists

\* ------------------------------------------------------------------- C28
\* C28: referential integrity of snapshots.  After any sequence and
\* interleaving of createPayment, deletePayment, deleteFarm and
\* deleteFarmerCascade, the farm_id of every stored Monthly Payment document
\* is the _id of a stored farm: deleting a farm leaves no snapshot of it
\* behind, and a createPayment racing with deleteFarm inserts none.
C28_SnapshotsReferToAFarm ==
  Quiescent =>
    \A d \in payments : \E f \in farms : f._id = d.farm_id

\* ------------------------------------------------------------------- C29
\* C29: after any sequence of createPayment, updatePayment and farm update
\* operations, the BRL price per liter that getPricePerLiterByFarmAndMonth
\* reports for a stored snapshot, taken before it is formatted, is the
\* price_per_liter stored in that snapshot.
C29_ReportedPriceIsStoredPrice ==
  \A c \in Slots :
    (calls[c].op = "getMonth" /\ calls[c].price # <<>>) =>
      calls[c].price[1] = calls[c].items[1].price_per_liter

\* ------------------------------------------------------------------- C30
\* the fields of a snapshot that createPayment computes
ComputedFields == {"farm_id", "price_per_liter", "total_volume_liters", "total_payment"}

\* what the server computes for the createPayment call in slot c from the
\* farm it has read, the requested month and the records stored in range
serverComputed(c) ==
  LET records == getMilkProductionsByYearAndMonth(
                   calls[c].id, startOfMonth(calls[c].year, calls[c].month),
                   endOfMonth(calls[c].year, calls[c].month))
      totalVolumeLiters == SumVolumes(records)
      pricePerLiter == _calculatePricePerLiter(
                         calls[c].farm[1].distance_to_factory_km,
                         totalVolumeLiters, calls[c].month)
  IN [farm_id |-> calls[c].id,
      price_per_liter |-> pricePerLiter,
      total_volume_liters |-> totalVolumeLiters,
      total_payment |-> JsMul(pricePerLiter, Num(totalVolumeLiters))]

\* C30: the values createPayment persists for farm_id, price_per_liter,
\* total_volume_liters and total_payment are the server-computed ones: for
\* any body, one that carries price_per_liter, total_volume_liters or
\* total_payment included, the document to insert has for these fields what
\* follows from the farm, the requested month and the stored records, and
\* the document inserted has the same.
C30_PersistedFieldsAreComputed ==
  [][\A c \in Slots :
       /\ (calls[c].pc = "cp_productions" /\ calls'[c].pc = "cp_insert") =>
            \A f \in ComputedFields : calls'[c].doc[1][f] = serverComputed(c)[f]
       /\ (calls[c].pc = "cp_insert" /\ calls'[c].pc = "done"
             /\ calls'[c].result.status = 201) =>
            /\ Cardinality(payments' \ payments) = 1
            /\ \A p \in payments' \ payments :
                 \A f \in ComputedFields : p[f] = calls[c].doc[1][f]]_vars

\* a snapshot has been stored for a body that carried a price of its own,
\* and its price is not the body's
C30_Witness ==
  /\ calls["a"].op = "createPayment"
  /\ calls["a"].pc = "done"
  /\ calls["a"].result.status = 201
  /\ calls["a"].body # <<>>
  /\ \E p \in payments :
       /\ p._id = calls["a"].result.list[1].insertedId
       /\ p.price_per_liter # calls["a"].body[1].price_per_liter
       /\ p.total_volume_liters # calls["a"].body[1].total_volume_liters

====
